---- MODULE Spec2Model ----
(***************************************************************************)
(* Deploy-status dashboard: the status model (models.py), the source       *)
(* adapters and the environment / app fetchers (github.py) and the fleet   *)
(* orchestrator (app.py), as one state machine.                            *)
(*                                                                         *)
(* An asyncio task runs atomically from one await to the next, so every    *)
(* action below is one such stretch of a coroutine.  An external call      *)
(* (spawn of the gh process plus communicate()) is one await: the action   *)
(* that resumes the coroutine draws the call's outcome.                    *)
(***************************************************************************)
EXTENDS Integers, Sequences, FiniteSets, TLC

VARIABLES
    apps,         \* DeployStatusApp.apps: the App entities (config and fetched fields)
    card,         \* what each AppCard shows after its last update_app
    refreshTask,  \* DeployStatusApp._refresh_task: id of the newest batch
    batchPc,      \* position of each _load_all_status task
    batchNext,    \* next inventory index a batch will launch
    appPc,        \* position of each _load_app_status task, per batch and app
    envTask,      \* each fetch_environment_status task: pc, workflow index, locals
    cmpTask,      \* the branch-diff fetches of an app fetcher, per config
    relTask,      \* the release held by fetch_latest_release between its two calls
    hung,         \* environment fetchers whose pending external call never responds
    writer,       \* history: batch of the last fetcher write since the last refresh request
    nFalse,       \* history: times loading was set false since the last refresh request
    obs,          \* history: decisive external response per workflow in the current cycle
    srcIn,        \* source adapter under test: the fetch and the outcome of its call
    srcOut,       \* source adapter under test: what the fetch gave its caller
    selected_app, \* DeployStatusApp.selected_app: the app of the detail view, 0 for None
    healthTask    \* DetailView._health_task of the view mounted last, per app

vars == <<apps, card, refreshTask, batchPc, batchNext, appPc, envTask, cmpTask,
          relTask, hung, writer, nFalse, obs, srcIn, srcOut, selected_app, healthTask>>

(***************************************************************************)
(* Bounds of the model.                                                    *)
(***************************************************************************)
NApps == 2        \* apps in the inventory of the orchestrator specifications
MaxRefresh == 1   \* refresh requests after mount
MaxStorm == 2     \* refresh requests after mount in a session that keeps refreshing
MaxWf == 2        \* workflows per environment

(***************************************************************************)
(* Status model (models.py).                                               *)
(***************************************************************************)
NONE == "none"
SUCCESS == "success"
FAILURE == "failure"
RUNNING == "running"
LOADING == "loading"

Status == {NONE, SUCCESS, FAILURE, RUNNING, LOADING}

EnvNames == {"dev", "prod"}

\* Environment.has_workflows
has_workflows(env) == Len(env.workflows) > 0

\* The statuses of an environment's workflows, in order.
Statuses(env) == [i \in 1..Len(env.workflows) |-> env.workflows[i].status]

InSeq(x, s) == \E i \in 1..Len(s) : s[i] = x

\* Mutant of RollupWorkflows: RUNNING tested before FAILURE.
RollupWorkflows_RunningFirst(statuses) ==
    IF InSeq(RUNNING, statuses) THEN RUNNING
    ELSE IF InSeq(FAILURE, statuses) THEN FAILURE
    ELSE IF InSeq(LOADING, statuses) THEN LOADING
    ELSE IF \A i \in 1..Len(statuses) : statuses[i] = SUCCESS THEN SUCCESS
    ELSE NONE

\* Mutant of RollupWorkflows: LOADING is looked for before RUNNING.
RollupWorkflows_LoadingFirst(statuses) ==
    IF InSeq(FAILURE, statuses) THEN FAILURE
    ELSE IF InSeq(LOADING, statuses) THEN LOADING
    ELSE IF InSeq(RUNNING, statuses) THEN RUNNING
    ELSE IF \A i \in 1..Len(statuses) : statuses[i] = SUCCESS THEN SUCCESS
    ELSE NONE

\* Mutant of RollupWorkflows: any() where the code has all().
RollupWorkflows_AnySuccess(statuses) ==
    IF InSeq(FAILURE, statuses) THEN FAILURE
    ELSE IF InSeq(RUNNING, statuses) THEN RUNNING
    ELSE IF InSeq(LOADING, statuses) THEN LOADING
    ELSE IF InSeq(SUCCESS, statuses) THEN SUCCESS
    ELSE NONE

\* Environment.overall_status, the part that folds the workflow statuses.
RollupWorkflows(statuses) ==
    IF InSeq(FAILURE, statuses) THEN FAILURE
    ELSE IF InSeq(RUNNING, statuses) THEN RUNNING
    ELSE IF InSeq(LOADING, statuses) THEN LOADING
    ELSE IF \A i \in 1..Len(statuses) : statuses[i] = SUCCESS THEN SUCCESS
    ELSE NONE

\* Mutant of overall_status: the environment's own status, whatever its workflows.
overall_status_OwnStatus(env) == env.status

\* Environment.overall_status
overall_status(env) ==
    IF ~has_workflows(env) THEN env.status
    ELSE RollupWorkflows(Statuses(env))

\* Mutant of app_overall_status: SUCCESS only when both environments are SUCCESS.
app_overall_status_AllSuccess(app) ==
    LET dev_status == overall_status(app.dev)
        prod_status == overall_status(app.prod)
    IN  IF dev_status = FAILURE \/ prod_status = FAILURE THEN FAILURE
        ELSE IF dev_status = RUNNING \/ prod_status = RUNNING THEN RUNNING
        ELSE IF dev_status = LOADING \/ prod_status = LOADING THEN LOADING
        ELSE IF dev_status = SUCCESS /\ prod_status = SUCCESS THEN SUCCESS
        ELSE NONE

\* Mutant of app_overall_status: SUCCESS is tested before LOADING.
app_overall_status_SuccessFirst(app) ==
    LET dev_status == overall_status(app.dev)
        prod_status == overall_status(app.prod)
    IN  IF dev_status = FAILURE \/ prod_status = FAILURE THEN FAILURE
        ELSE IF dev_status = RUNNING \/ prod_status = RUNNING THEN RUNNING
        ELSE IF dev_status = SUCCESS \/ prod_status = SUCCESS THEN SUCCESS
        ELSE IF dev_status = LOADING \/ prod_status = LOADING THEN LOADING
        ELSE NONE

\* App.overall_status
app_overall_status(app) ==
    LET dev_status == overall_status(app.dev)
        prod_status == overall_status(app.prod)
    IN  IF dev_status = FAILURE \/ prod_status = FAILURE THEN FAILURE
        ELSE IF dev_status = RUNNING \/ prod_status = RUNNING THEN RUNNING
        ELSE IF dev_status = LOADING \/ prod_status = LOADING THEN LOADING
        ELSE IF dev_status = SUCCESS \/ prod_status = SUCCESS THEN SUCCESS
        ELSE NONE

(***************************************************************************)
(* Source adapters (github.py).  A Python call either returns a value or   *)
(* raises; a body is evaluated to [how, val] and the function's            *)
(* try/except turns how = "raise" into the return its handler makes.       *)
(***************************************************************************)
Return(v) == [how |-> "return", val |-> v]
Raise(v) == [how |-> "raise", val |-> v]

\* Mutant of Catch: the handler is missing, the exception reaches the caller.
Catch_Missing(r, handler) == r

\* try: <body> except Exception: return <handler>
Catch(r, handler) == IF r.how = "raise" THEN Return(handler) ELSE r

\* What the run JSON can say.  "" stands for a missing, null or unknown value,
\* run id 0 for a missing or null id.
StatusStrs == {"completed", "in_progress", "queued", "waiting", ""}
Conclusions == {"success", "failure", ""}
RunIds == {0, 42}

\* Outcomes of `gh api repos/<repo>/actions/runs?branch=..&per_page=1`:
\* the process cannot be spawned, exits non-zero, prints nothing, prints null,
\* prints text that is no JSON, prints JSON that is no object, or prints a run.
NoRun == [status |-> "", conclusion |-> "", id |-> 0, nameok |-> TRUE]
CallFailures == {"spawnfail", "nonzero", "empty", "null", "garbage", "scalar"}
RunOutcomes ==
    {[kind |-> k, run |-> NoRun] : k \in CallFailures}
    \cup {[kind |-> "run", run |-> r] :
            r \in [status : StatusStrs, conclusion : Conclusions, id : RunIds,
                   nameok : BOOLEAN]}

\* {"status": Status.NONE}: result.get("run_id") is None
NoneResult == [status |-> NONE, run_id |-> 0]

\* Mutant of Classify: a completed run counts as SUCCESS whatever its conclusion.
Classify_AlwaysSuccess(status_str, conclusion) ==
    IF status_str = "completed" THEN SUCCESS
    ELSE IF status_str \in {"in_progress", "queued", "waiting"} THEN RUNNING
    ELSE NONE

\* "Determine status" of fetch_workflow_status and _fetch_workflow_status_by_name
Classify(status_str, conclusion) ==
    IF status_str = "completed"
        THEN (IF conclusion = "success" THEN SUCCESS ELSE FAILURE)
    ELSE IF status_str \in {"in_progress", "queued", "waiting"} THEN RUNNING
    ELSE NONE

\* Mutant of RunBody: the name of the run's workflow is not compared.
RunBody_NoNameCheck(workflow_name, o) ==
    IF o.kind = "spawnfail" THEN Raise(NoneResult)
    ELSE IF o.kind = "nonzero" THEN Return(NoneResult)
    ELSE IF o.kind \in {"empty", "null"} THEN Return(NoneResult)
    ELSE IF o.kind \in {"garbage", "scalar"} THEN Raise(NoneResult)
    ELSE Return([status |-> Classify(o.run.status, o.run.conclusion),
                 run_id |-> o.run.id])

\* Body of fetch_workflow_status after the repo/branch test, up to the await of
\* the by-name lookup (how = "fallback").
RunBody(workflow_name, o) ==
    IF o.kind = "spawnfail" THEN Raise(NoneResult)
    ELSE IF o.kind = "nonzero" THEN Return(NoneResult)
    ELSE IF o.kind \in {"empty", "null"} THEN Return(NoneResult)
    ELSE IF o.kind \in {"garbage", "scalar"} THEN Raise(NoneResult)
    ELSE IF workflow_name /\ ~o.run.nameok
        THEN [how |-> "fallback", val |-> NoneResult]
    ELSE Return([status |-> Classify(o.run.status, o.run.conclusion),
                 run_id |-> o.run.id])

\* Outcomes of `gh run list --workflow <name> -L 1 --json ..`: as above, or an
\* empty list, or a list with one run.
ByNameOutcomes ==
    {[kind |-> k, run |-> NoRun] : k \in {"spawnfail", "nonzero", "garbage", "emptylist"}}
    \cup {[kind |-> "run", run |-> r] :
            r \in [status : StatusStrs, conclusion : Conclusions, id : RunIds,
                   nameok : {TRUE}]}

\* Outcomes of the actor call `gh api repos/<repo>/actions/runs/<id>`.
ActorOutcomes == {"spawnfail", "nonzero", "ok"}

\* _fetch_workflow_status_by_name awaits the actor call when the run has an id.
NeedsActor(o) == o.kind = "run" /\ o.run.id # 0

\* Body of _fetch_workflow_status_by_name; `oa` is the outcome of the actor call,
\* read only when that call is made.
ByNameBody(o, oa) ==
    IF o.kind \in {"spawnfail", "garbage"} THEN Raise(NoneResult)
    ELSE IF o.kind \in {"nonzero", "emptylist"} THEN Return(NoneResult)
    ELSE IF NeedsActor(o) /\ oa = "spawnfail" THEN Raise(NoneResult)
    ELSE Return([status |-> Classify(o.run.status, o.run.conclusion),
                 run_id |-> o.run.id])

\* _fetch_workflow_status_by_name, whole.
fetch_workflow_status_by_name(ob, oa) == Catch(ByNameBody(ob, oa), NoneResult)

\* fetch_workflow_status, whole: `has_target` is "repo and branch",
\* `workflow_name` is "a workflow name was given".
fetch_workflow_status(has_target, workflow_name, o, ob, oa) ==
    IF ~has_target THEN Return(NoneResult)
    ELSE LET r == RunBody(workflow_name, o)
         IN  Catch(IF r.how = "fallback" THEN fetch_workflow_status_by_name(ob, oa)
                   ELSE r,
                   NoneResult)

\* fetch_error_logs(max_lines=500)
max_lines == 500

\* lines[-max_lines:] if len(lines) > max_lines else lines
LastLines(lines, n) ==
    IF Len(lines) > n THEN SubSeq(lines, Len(lines) - n + 1, Len(lines)) ELSE lines

\* Outcomes of `gh run view <id> --log-failed`; stdout.strip().split("\n") of an
\* empty output is one empty line.
LogTexts == {<<"">>, <<"l1">>, <<"l1", "l2">>}
LogOutcomes ==
    {[kind |-> k, lines |-> <<>>] : k \in {"spawnfail", "nonzero"}}
    \cup {[kind |-> "ok", lines |-> t] : t \in LogTexts}

\* fetch_error_logs
fetch_error_logs(o) ==
    Catch(IF o.kind = "spawnfail" THEN Raise(<<>>)
          ELSE IF o.kind = "nonzero" THEN Return(<<>>)
          ELSE Return(LastLines(o.lines, max_lines)),
          <<>>)

\* Commits as the calls print them: a field is "" when the JSON has null for it.
\* date: "" (null), "bad" (no ISO date) or "ok".
NoCommit == [sha |-> "", message |-> "", date |-> ""]
CommitJson == [sha : {"", "abc1234"}, message : {"", "fix"}, date : {"", "bad", "ok"}]

\* One commit object to a Commit: a null message has no split() (AttributeError),
\* a date that does not parse is a ValueError the code passes over.
ParseCommit(c) ==
    IF c.message = "" THEN Raise(NoCommit)
    ELSE Return([sha |-> c.sha, message |-> c.message,
                 date |-> IF c.date = "ok" THEN "ok" ELSE ""])

\* Outcomes of `gh api repos/<repo>/commits/<branch>`.
CommitOutcomes ==
    {[kind |-> k, commit |-> NoCommit] : k \in {"spawnfail", "nonzero", "garbage", "scalar"}}
    \cup {[kind |-> "ok", commit |-> c] : c \in CommitJson}

\* Optional[Commit]: None is [some |-> FALSE].
Null == [some |-> FALSE, commit |-> NoCommit]
Some(c) == [some |-> TRUE, commit |-> c]

\* fetch_latest_commit
fetch_latest_commit(has_target, o) ==
    IF ~has_target THEN Return(Null)
    ELSE Catch(IF o.kind \in {"spawnfail", "garbage", "scalar"} THEN Raise(Null)
               ELSE IF o.kind = "nonzero" THEN Return(Null)
               ELSE LET c == ParseCommit(o.commit)
                    IN  IF c.how = "raise" THEN Raise(Null) ELSE Return(Some(c.val)),
               Null)

\* BranchCompareConfig entries of the inventory: (head, base) pairs.
CompareConfigs == <<[head |-> "develop", base |-> "main"],
                    [head |-> "main", base |-> "release"]>>

\* BranchComparison(base=config.base, head=config.head): counts 0, no commits.
NewComparison(config) ==
    [base |-> config.base, head |-> config.head, ahead_by |-> 0, behind_by |-> 0,
     commits |-> <<>>]

\* Outcomes of `gh api repos/<repo>/compare/<base>...<head>`; the commits of the
\* JSON differ in whether their message is null.
DiffCommits == {[sha |-> "abc1234", message |-> m, date |-> "ok"] : m \in {"", "fix"}}
NoDiff == [ahead_by |-> 0, behind_by |-> 0, commits |-> <<>>]
DiffJson ==
    [ahead_by : {0, 3}, behind_by : {0, 1},
     commits : {<<>>} \cup {<<c>> : c \in DiffCommits}
               \cup {<<c, d>> : c \in DiffCommits, d \in DiffCommits}]
DiffOutcomes ==
    {[kind |-> k, data |-> NoDiff] : k \in {"spawnfail", "nonzero", "garbage", "scalar"}}
    \cup {[kind |-> "ok", data |-> d] : d \in DiffJson}

\* for c in data.get("commits", []): comparison.commits.append(Commit(..)), the
\* loop from commit i on; it stops where a commit raises.
RECURSIVE AppendCommits(_, _, _)
AppendCommits(comparison, cs, i) ==
    IF i > Len(cs) THEN Return(comparison)
    ELSE LET c == ParseCommit(cs[i])
         IN  IF c.how = "raise" THEN Raise(comparison)
             ELSE AppendCommits(
                    [comparison EXCEPT !.commits = Append(comparison.commits, c.val)],
                    cs, i + 1)

\* fetch_branch_comparison: every path returns `comparison` as it is by then.
fetch_branch_comparison(has_repo, config, o) ==
    LET comparison == NewComparison(config)
        body ==
            IF o.kind \in {"spawnfail", "garbage", "scalar"} THEN Raise(comparison)
            ELSE IF o.kind = "nonzero" THEN Return(comparison)
            ELSE AppendCommits(
                   [comparison EXCEPT !.ahead_by = o.data.ahead_by,
                                      !.behind_by = o.data.behind_by],
                   o.data.commits, 1)
    IN  IF ~has_repo THEN Return(comparison)
        ELSE Catch(body, body.val)

\* Release(tag=..): no build run, build status NONE.  None is [some |-> FALSE].
NoRelease == [some |-> FALSE, tag |-> "", build_run_id |-> 0, build_status |-> NONE]
NewRelease(tag) == [some |-> TRUE, tag |-> tag, build_run_id |-> 0, build_status |-> NONE]

\* Outcomes of `gh api repos/<repo>/releases/latest`.
ReleaseOutcomes ==
    {[kind |-> k, tag |-> ""] : k \in {"spawnfail", "nonzero", "garbage", "scalar"}}
    \cup {[kind |-> "ok", tag |-> "v1"]}

\* fetch_latest_release up to the await of the build-run call (how = "run").
ReleaseBody(o) ==
    IF o.kind \in {"spawnfail", "garbage", "scalar"} THEN Raise(NoRelease)
    ELSE IF o.kind = "nonzero" THEN Return(NoRelease)
    ELSE [how |-> "run", val |-> NewRelease(o.tag)]

\* Outcomes of `gh api repos/<repo>/actions/runs?event=release&per_page=5`.  The
\* jq filter prints {id, status, conclusion} of the first matching run, with
\* every field null when no run matches: a run with status "", conclusion "",
\* id 0.
ReleaseRunOutcomes ==
    {[kind |-> k, run |-> NoRun] : k \in CallFailures}
    \cup {[kind |-> "run", run |-> r] :
            r \in [status : StatusStrs, conclusion : Conclusions, id : RunIds,
                   nameok : {TRUE}]}

\* Rest of fetch_latest_release once the build-run call is over.
ReleaseRunBody(release, o) ==
    IF o.kind \in {"spawnfail", "garbage", "scalar"} THEN Raise(NoRelease)
    ELSE IF o.kind \in {"nonzero", "empty", "null"} THEN Return(release)
    ELSE Return([release EXCEPT
                   !.build_run_id = o.run.id,
                   !.build_status = Classify(o.run.status, o.run.conclusion)])

\* fetch_latest_release, whole.
fetch_latest_release(o, orun) ==
    LET r == ReleaseBody(o)
    IN  Catch(IF r.how = "run" THEN ReleaseRunBody(r.val, orun) ELSE r, NoRelease)

\* Text as the sequence of its characters.
Timeout == <<"T", "i", "m", "e", "o", "u", "t">>
ConnectionFailed ==
    <<"C", "o", "n", "n", "e", "c", "t", "i", "o", "n", " ",
      "f", "a", "i", "l", "e", "d">>
Chars(n) == [i \in 1..n |-> "x"]

\* s[:n]
Prefix(s, n) == SubSeq(s, 1, IF Len(s) < n THEN Len(s) ELSE n)

\* What `client.get(url)` comes to: a response with a status code, a timeout
\* after 10 s (httpx.TimeoutException), a connection that cannot be made
\* (httpx.ConnectError), or another exception whose str() is `text`.
HealthCodes == {199, 200, 204, 301, 399, 400, 404, 500}
HealthOutcomes ==
    {[kind |-> "response", code |-> c, text |-> <<>>] : c \in HealthCodes}
    \cup {[kind |-> k, code |-> 0, text |-> <<>>] : k \in {"timeout", "connect"}}
    \cup {[kind |-> "error", code |-> 0, text |-> Chars(n)] : n \in {0, 7, 50, 51}}

\* Mutant of HealthBody: only the codes from 200 to 299 count as healthy.
HealthBody_SuccessOnly(env, o) ==
    IF o.kind = "response"
        THEN Return([env EXCEPT
                       !.health_code = o.code,
                       !.health_latency_ms = "measured",
                       !.health_ok = IF 200 <= o.code /\ o.code < 300
                                        THEN "ok" ELSE "fail"])
        ELSE Raise(env)

\* The try block of fetch_health_check.  health_ok True is "ok", False "fail".
HealthBody(env, o) ==
    IF o.kind = "response"
        THEN Return([env EXCEPT
                       !.health_code = o.code,
                       !.health_latency_ms = "measured",
                       !.health_ok = IF 200 <= o.code /\ o.code < 400
                                        THEN "ok" ELSE "fail"])
        ELSE Raise(env)

\* fetch_health_check: it changes env in place and returns None; the value here
\* is env as the call leaves it.
fetch_health_check(env, o) ==
    IF ~env.url THEN Return(env)
    ELSE LET r == HealthBody(env, o)
         IN  IF r.how = "return" THEN r
             ELSE IF o.kind = "timeout"
                 THEN Return([env EXCEPT !.health_ok = "fail",
                                         !.health_error = Timeout])
             ELSE IF o.kind = "connect"
                 THEN Return([env EXCEPT !.health_ok = "fail",
                                         !.health_error = ConnectionFailed])
             ELSE Return([env EXCEPT !.health_ok = "fail",
                                     !.health_error = Prefix(o.text, 50)])

(***************************************************************************)
(* The inventory (models.py, get_apps) and the entities.                   *)
(***************************************************************************)
\* Workflow(name=.., repo=.., branch=..): status LOADING, no run, no error lines
NewWorkflow == [status |-> LOADING, run_id |-> 0, error_lines |-> <<>>]

\* Environment(..): `repo` is "a repository is configured"; an environment
\* without one is declared with status NONE, any other starts LOADING.  In the
\* inventory an environment has a url exactly when it has a repository.
\* health_ok is None ("none") until a health probe sets it.
NewEnvironment(repo, nwf) ==
    [repo |-> repo, url |-> repo, status |-> IF repo THEN LOADING ELSE NONE,
     run_id |-> 0, error_lines |-> <<>>, last_commit |-> Null,
     workflows |-> [i \in 1..nwf |-> NewWorkflow], health_ok |-> "none",
     health_code |-> 0, health_latency_ms |-> "none", health_error |-> <<>>]

\* App(..): loading=True; compare_configs is the number of BranchCompareConfig
\* entries (the first ones of CompareConfigs).
NewApp(dev, prod, compare_configs, track_releases) ==
    [loading |-> TRUE, dev |-> dev, prod |-> prod,
     compare_configs |-> compare_configs, comparisons |-> <<>>,
     track_releases |-> track_releases, latest_release |-> NoRelease]

\* get_apps(): odd entries are like uMap (a development environment, no
\* production environment) and compare branches and track releases; even entries
\* are apps that are not deployed yet (no repository on either environment).
AppConfig(i) ==
    IF i % 2 = 1
        THEN NewApp(NewEnvironment(TRUE, 0), NewEnvironment(FALSE, 0), 1, TRUE)
        ELSE NewApp(NewEnvironment(FALSE, 0), NewEnvironment(FALSE, 0), 0, FALSE)

get_apps == [i \in 1..NApps |-> AppConfig(i)]

AppIds == 1..Len(apps)
Batches == 1..(MaxStorm + 1)

\* AppCard.update_app: the card shows the loading flag and the rollups.
CardOf(app) ==
    [loading |-> app.loading, dev |-> overall_status(app.dev),
     prod |-> overall_status(app.prod), status |-> app_overall_status(app)]

(***************************************************************************)
(* Tasks.                                                                  *)
(***************************************************************************)
IdleEnvTask == [pc |-> "none", idx |-> 0, pending |-> NoRun]
EnvAt(pc, idx) == [pc |-> pc, idx |-> idx, pending |-> NoRun]
NoObs ==
    [seen |-> FALSE, fail |-> FALSE, status |-> "", conclusion |-> "", id |-> 0,
     logged |-> FALSE, log_id |-> 0, commit |-> [kind |-> "none", commit |-> NoCommit]]

\* An environment fetcher waits for an external call at these positions.
Awaiting == {"run", "byname", "actor", "log", "commit"}

\* No app is selected and no detail view has been mounted.
DetailClosed ==
    /\ selected_app = 0
    /\ healthTask = [a \in AppIds |-> "none"]

TasksInit ==
    /\ card = [a \in AppIds |-> CardOf(apps[a])]
    /\ refreshTask = 1
    /\ batchPc = [b \in Batches |-> IF b = 1 THEN "created" ELSE "none"]
    /\ batchNext = [b \in Batches |-> 1]
    /\ appPc = [b \in Batches |-> [a \in AppIds |-> "none"]]
    /\ envTask = [b \in Batches |-> [a \in AppIds |-> [e \in EnvNames |-> IdleEnvTask]]]
    /\ cmpTask = [b \in Batches |-> [a \in AppIds |-> <<>>]]
    /\ relTask = [b \in Batches |-> [a \in AppIds |-> NoRelease]]
    /\ hung = {}
    /\ writer = 0
    /\ nFalse = [a \in AppIds |-> 0]
    /\ obs = [a \in AppIds |-> [e \in EnvNames |-> [i \in 0..MaxWf |-> NoObs]]]
    /\ DetailClosed

\* No source adapter is under test.
NoFetch ==
    [fetch |-> "none", target |-> TRUE, named |-> FALSE,
     run |-> [kind |-> "nonzero", run |-> NoRun],
     byname |-> [kind |-> "nonzero", run |-> NoRun], actor |-> "ok",
     log |-> [kind |-> "nonzero", lines |-> <<>>],
     commit |-> [kind |-> "nonzero", commit |-> NoCommit],
     diff |-> [kind |-> "nonzero", data |-> NoDiff],
     release |-> [kind |-> "nonzero", tag |-> ""],
     relrun |-> [kind |-> "nonzero", run |-> NoRun],
     env |-> NewEnvironment(FALSE, 0),
     health |-> [kind |-> "timeout", code |-> 0, text |-> <<>>]]

SourceIdle ==
    /\ srcIn = NoFetch
    /\ srcOut = [how |-> "none"]

\* DeployStatusApp.on_mount: the inventory is loaded, the cards are created and
\* the first batch is created.
Init ==
    /\ apps = get_apps
    /\ TasksInit
    /\ SourceIdle

(***************************************************************************)
(* Environment fetcher (github.py, fetch_environment_status).              *)
(***************************************************************************)
orchVars == <<card, refreshTask, batchPc, batchNext, appPc, cmpTask, relTask, nFalse>>
srcVars == <<srcIn, srcOut>>
detailVars == <<selected_app, healthTask>>

\* workflow.status = result.get("status", Status.NONE); workflow.run_id = ..
\* for workflow i, the same on the environment's own fields for i = 0.
\* Mutant of Applied: the result of a workflow is also written to the
\* environment's own fields.
Applied_AlsoOwn(env, i, res) ==
    IF i > 0
        THEN [env EXCEPT !.workflows[i].status = res.status,
                         !.workflows[i].run_id = res.run_id,
                         !.status = res.status, !.run_id = res.run_id]
        ELSE [env EXCEPT !.status = res.status, !.run_id = res.run_id]

Applied(env, i, res) ==
    IF i > 0
        THEN [env EXCEPT !.workflows[i].status = res.status,
                         !.workflows[i].run_id = res.run_id]
        ELSE [env EXCEPT !.status = res.status, !.run_id = res.run_id]

\* Mutant of NeedsLog: the error log is fetched for every run that has an id.
NeedsLog_AnyStatus(env, i) ==
    IF i > 0 THEN env.workflows[i].run_id # 0 ELSE env.run_id # 0

\* if <entity>.status == Status.FAILURE and <entity>.run_id
NeedsLog(env, i) ==
    IF i > 0
        THEN env.workflows[i].status = FAILURE /\ env.workflows[i].run_id # 0
        ELSE env.status = FAILURE /\ env.run_id # 0

\* Where the fetcher waits next once workflow i is finished: the run call of the
\* next workflow of the loop, or the commit call.
AfterWorkflow(env, i) ==
    IF i > 0 /\ i < Len(env.workflows) THEN EnvAt("run", i + 1) ELSE EnvAt("commit", i)

\* Mutant of EnvStart: the repository is not looked at.
EnvStart_IgnoresRepo(b, a, e) ==
    /\ envTask[b][a][e].pc = "start"
    /\ envTask' = [envTask EXCEPT ![b][a][e] =
                      EnvAt("run", IF has_workflows(apps[a][e]) THEN 1 ELSE 0)]
    /\ UNCHANGED <<apps, writer, orchVars, srcVars, detailVars, hung, obs>>

\* The first stretch of fetch_environment_status.
EnvStart(b, a, e) ==
    /\ envTask[b][a][e].pc = "start"
    /\ LET env == apps[a][e]
       IN  IF ~env.repo
             THEN /\ apps' = [apps EXCEPT ![a][e].status = NONE]
                  /\ envTask' = [envTask EXCEPT ![b][a][e] = EnvAt("done", 0)]
                  /\ writer' = b
             ELSE /\ envTask' = [envTask EXCEPT ![b][a][e] =
                                   EnvAt("run", IF has_workflows(env) THEN 1 ELSE 0)]
                  /\ UNCHANGED <<apps, writer>>
    /\ UNCHANGED <<orchVars, srcVars, detailVars, hung, obs>>

\* The fetcher resumes with the result `res` of fetch_workflow_status.
Resume(b, a, e, res, seen) ==
    LET i == envTask[b][a][e].idx
        env == Applied(apps[a][e], i, res)
    IN  /\ apps' = [apps EXCEPT ![a][e] = env]
        /\ envTask' = [envTask EXCEPT ![b][a][e] =
                         IF NeedsLog(env, i) THEN EnvAt("log", i)
                         ELSE AfterWorkflow(env, i)]
        /\ obs' = [obs EXCEPT ![a][e][i] =
                      [seen EXCEPT !.logged = NeedsLog(env, i),
                                   !.log_id = IF ~NeedsLog(env, i) THEN 0
                                              ELSE IF i > 0 THEN env.workflows[i].run_id
                                              ELSE env.run_id]]
        /\ writer' = b

\* The awaited fetch raised: fetch_environment_status has no handler, the
\* exception leaves it.
Raised(b, a, e) ==
    /\ envTask' = [envTask EXCEPT ![b][a][e] = EnvAt("raised", 0)]
    /\ UNCHANGED <<apps, obs, writer>>

\* The fetcher gets the outcome r of fetch_workflow_status: a result or an exception.
Resumed(b, a, e, r, seen) ==
    IF r.how = "raise" THEN Raised(b, a, e) ELSE Resume(b, a, e, r.val, seen)

ObsOf(o, failed) ==
    [seen |-> TRUE, fail |-> failed, status |-> o.run.status,
     conclusion |-> o.run.conclusion, id |-> o.run.id,
     logged |-> FALSE, log_id |-> 0, commit |-> NoObs.commit]

\* The gh api call of fetch_workflow_status is over with outcome o.
RunReturn(b, a, e, o) ==
    /\ envTask[b][a][e].pc = "run"
    /\ <<b, a, e>> \notin hung
    /\ LET r == Catch(RunBody(envTask[b][a][e].idx > 0, o), NoneResult)
       IN  IF r.how = "fallback"
             THEN /\ envTask' = [envTask EXCEPT ![b][a][e].pc = "byname"]
                  /\ UNCHANGED <<apps, obs, writer>>
             ELSE Resumed(b, a, e, r, ObsOf(o, o.kind # "run"))
    /\ UNCHANGED <<orchVars, srcVars, detailVars, hung>>

\* The gh run list call of _fetch_workflow_status_by_name is over with outcome o.
ByNameReturn(b, a, e, o) ==
    /\ envTask[b][a][e].pc = "byname"
    /\ <<b, a, e>> \notin hung
    /\ IF NeedsActor(o)
         THEN /\ envTask' = [envTask EXCEPT ![b][a][e].pc = "actor",
                                            ![b][a][e].pending = o.run]
              /\ UNCHANGED <<apps, obs, writer>>
         ELSE Resumed(b, a, e,
                      Catch(fetch_workflow_status_by_name(o, "ok"), NoneResult),
                      ObsOf(o, o.kind # "run"))
    /\ UNCHANGED <<orchVars, srcVars, detailVars, hung>>

\* The actor call of _fetch_workflow_status_by_name is over with outcome oa.
ActorReturn(b, a, e, oa) ==
    /\ envTask[b][a][e].pc = "actor"
    /\ <<b, a, e>> \notin hung
    /\ LET o == [kind |-> "run", run |-> envTask[b][a][e].pending]
       IN  Resumed(b, a, e, Catch(fetch_workflow_status_by_name(o, oa), NoneResult),
                   ObsOf(o, oa = "spawnfail"))
    /\ UNCHANGED <<orchVars, srcVars, detailVars, hung>>

\* Mutant of LogReturn: the lines are appended to those the entity has.
LogReturn_Appends(b, a, e, o) ==
    /\ envTask[b][a][e].pc = "log"
    /\ <<b, a, e>> \notin hung
    /\ LET i == envTask[b][a][e].idx
           r == fetch_error_logs(o)
       IN  /\ apps' = IF i > 0
                        THEN [apps EXCEPT ![a][e].workflows[i].error_lines = @ \o r.val]
                        ELSE [apps EXCEPT ![a][e].error_lines = @ \o r.val]
           /\ envTask' = [envTask EXCEPT ![b][a][e] = AfterWorkflow(apps[a][e], i)]
           /\ writer' = b
           /\ UNCHANGED obs
    /\ UNCHANGED <<orchVars, srcVars, detailVars, hung>>

\* The call of fetch_error_logs is over with outcome o.
LogReturn(b, a, e, o) ==
    /\ envTask[b][a][e].pc = "log"
    /\ <<b, a, e>> \notin hung
    /\ LET i == envTask[b][a][e].idx
           r == fetch_error_logs(o)
       IN  IF r.how = "raise" THEN Raised(b, a, e)
           ELSE /\ apps' = IF i > 0
                             THEN [apps EXCEPT ![a][e].workflows[i].error_lines = r.val]
                             ELSE [apps EXCEPT ![a][e].error_lines = r.val]
                /\ envTask' = [envTask EXCEPT ![b][a][e] = AfterWorkflow(apps[a][e], i)]
                /\ writer' = b
                /\ UNCHANGED obs
    /\ UNCHANGED <<orchVars, srcVars, detailVars, hung>>

\* Mutant of CommitReturn: a fetch that gives None leaves the commit the
\* environment has.
CommitReturn_KeepsOnFailure(b, a, e, o) ==
    /\ envTask[b][a][e].pc = "commit"
    /\ <<b, a, e>> \notin hung
    /\ LET r == fetch_latest_commit(TRUE, o)
       IN  /\ apps' = [apps EXCEPT ![a][e].last_commit =
                          IF r.val = Null THEN @ ELSE r.val]
           /\ envTask' = [envTask EXCEPT ![b][a][e] = EnvAt("done", 0)]
           /\ writer' = b
           /\ obs' = [obs EXCEPT ![a][e][0].commit = o]
    /\ UNCHANGED <<orchVars, srcVars, detailVars, hung>>

\* The call of fetch_latest_commit is over with outcome o; the fetcher returns.
CommitReturn(b, a, e, o) ==
    /\ envTask[b][a][e].pc = "commit"
    /\ <<b, a, e>> \notin hung
    /\ LET r == fetch_latest_commit(TRUE, o)
       IN  IF r.how = "raise" THEN Raised(b, a, e)
           ELSE /\ apps' = [apps EXCEPT ![a][e].last_commit = r.val]
                /\ envTask' = [envTask EXCEPT ![b][a][e] = EnvAt("done", 0)]
                /\ writer' = b
                /\ obs' = [obs EXCEPT ![a][e][0].commit = o]
    /\ UNCHANGED <<orchVars, srcVars, detailVars, hung>>

\* The external process of a pending call never exits: proc.communicate() has
\* no timeout, so the fetcher is never resumed.
CallHangs(b, a, e) ==
    /\ envTask[b][a][e].pc \in Awaiting
    /\ <<b, a, e>> \notin hung
    /\ hung' = hung \cup {<<b, a, e>>}
    /\ UNCHANGED <<apps, orchVars, srcVars, detailVars, envTask, obs, writer>>

(***************************************************************************)
(* App fetcher (github.py, fetch_app_status) inside _load_app_status       *)
(* (app.py), which publishes the app to its card when the fetch is over.   *)
(***************************************************************************)
envVars == <<envTask, hung, obs>>

\* Mutant of AppStart: an app is fetched only when the app before it is done.
AppStart_AfterPrevious(b, a) ==
    /\ appPc[b][a] = "start"
    /\ a > 1 => appPc[b][a - 1] = "done"
    /\ appPc' = [appPc EXCEPT ![b][a] = "envs"]
    /\ envTask' = [envTask EXCEPT ![b][a] = [e \in EnvNames |-> EnvAt("start", 0)]]
    /\ UNCHANGED <<apps, card, refreshTask, batchPc, batchNext, cmpTask, relTask,
                   hung, writer, nFalse, obs, srcVars, detailVars>>

\* _load_app_status starts: fetch_app_status gathers the two environment fetchers.
AppStart(b, a) ==
    /\ appPc[b][a] = "start"
    /\ appPc' = [appPc EXCEPT ![b][a] = "envs"]
    /\ envTask' = [envTask EXCEPT ![b][a] = [e \in EnvNames |-> EnvAt("start", 0)]]
    /\ UNCHANGED <<apps, card, refreshTask, batchPc, batchNext, cmpTask, relTask,
                   hung, writer, nFalse, obs, srcVars, detailVars>>

\* DeployStatusApp._update_detail_view for selected app a: the old DetailView is
\* removed and a new one is mounted, whose on_mount creates its health task.
\* The health task of a removed view is not followed any further.
update_detail_view(a) ==
    /\ selected_app' = a
    /\ healthTask' = [healthTask EXCEPT ![a] = "created"]

\* repo = app.dev.repo or app.prod.repo
AppRepo(app) == app.dev.repo \/ app.prod.repo

\* Mutant of Finished: the card is updated before loading is cleared.
Finished_PublishFirst(b, a, app) ==
    /\ apps' = [apps EXCEPT ![a] = [app EXCEPT !.loading = FALSE]]
    /\ card' = [card EXCEPT ![a] = CardOf(app)]
    /\ appPc' = [appPc EXCEPT ![b][a] = "done"]
    /\ nFalse' = [nFalse EXCEPT ![a] = @ + 1]
    /\ writer' = b
    /\ IF selected_app = a THEN update_detail_view(a) ELSE UNCHANGED detailVars

\* Mutant of Finished: the end of a fetch marks every app of the inventory as
\* loaded.
Finished_AllLoaded(b, a, app) ==
    /\ apps' = [c \in AppIds |->
                  IF c = a THEN [app EXCEPT !.loading = FALSE]
                  ELSE [apps[c] EXCEPT !.loading = FALSE]]
    /\ card' = [card EXCEPT ![a] = CardOf([app EXCEPT !.loading = FALSE])]
    /\ appPc' = [appPc EXCEPT ![b][a] = "done"]
    /\ nFalse' = [nFalse EXCEPT ![a] = @ + 1]
    /\ writer' = b
    /\ IF selected_app = a THEN update_detail_view(a) ELSE UNCHANGED detailVars

\* Mutant of Finished: the card is not updated when the fetch is over.
Finished_Unpublished(b, a, app) ==
    /\ apps' = [apps EXCEPT ![a] = [app EXCEPT !.loading = FALSE]]
    /\ appPc' = [appPc EXCEPT ![b][a] = "done"]
    /\ nFalse' = [nFalse EXCEPT ![a] = @ + 1]
    /\ writer' = b
    /\ UNCHANGED <<card, detailVars>>

\* app.loading = False, fetch_app_status returns and _load_app_status updates
\* the card; `app` is the App with the writes of this stretch so far.
Finished(b, a, app) ==
    /\ apps' = [apps EXCEPT ![a] = [app EXCEPT !.loading = FALSE]]
    /\ card' = [card EXCEPT ![a] = CardOf([app EXCEPT !.loading = FALSE])]
    /\ appPc' = [appPc EXCEPT ![b][a] = "done"]
    /\ nFalse' = [nFalse EXCEPT ![a] = @ + 1]
    /\ writer' = b
    /\ IF selected_app = a THEN update_detail_view(a) ELSE UNCHANGED detailVars

\* "Fetch latest release if tracking releases", or the end of the fetch.
ReleaseOrFinish(b, a, app) ==
    IF app.track_releases /\ AppRepo(app)
        THEN /\ apps' = [apps EXCEPT ![a] = app]
             /\ appPc' = [appPc EXCEPT ![b][a] = "rel"]
             /\ writer' = b
             /\ UNCHANGED <<card, nFalse, detailVars>>
        ELSE Finished(b, a, app)

\* Mutant of AppEnvsDone: the app fetcher goes on as soon as one environment
\* fetcher has returned.
AppEnvsDone_FirstDone(b, a) ==
    /\ appPc[b][a] = "envs"
    /\ \E e \in EnvNames : envTask[b][a][e].pc = "done"
    /\ LET app == apps[a]
       IN  IF AppRepo(app) /\ app.compare_configs > 0
             THEN /\ cmpTask' = [cmpTask EXCEPT ![b][a] =
                        [i \in 1..app.compare_configs |->
                            [done |-> FALSE, val |-> NewComparison(CompareConfigs[i])]]]
                  /\ appPc' = [appPc EXCEPT ![b][a] = "cmp"]
                  /\ writer' = b
                  /\ UNCHANGED <<apps, card, nFalse, detailVars>>
             ELSE /\ ReleaseOrFinish(b, a, app)
                  /\ UNCHANGED cmpTask
    /\ UNCHANGED <<refreshTask, batchPc, batchNext, relTask, envVars, srcVars>>

\* Both environment fetchers have returned: app.dev, app.prod are assigned and
\* the branch-diff fetches are gathered, if any.  If an environment fetcher
\* raised, the gather raises at once, fetch_app_status is left and
\* _load_app_status sets app.loading = False in its handler and updates the card.
AppEnvsDone(b, a) ==
    /\ appPc[b][a] = "envs"
    /\ \/ \A e \in EnvNames : envTask[b][a][e].pc = "done"
       \/ \E e \in EnvNames : envTask[b][a][e].pc = "raised"
    /\ LET app == apps[a]
       IN  IF \E e \in EnvNames : envTask[b][a][e].pc = "raised"
             THEN /\ Finished(b, a, app)
                  /\ UNCHANGED cmpTask
           ELSE IF AppRepo(app) /\ app.compare_configs > 0
             THEN /\ cmpTask' = [cmpTask EXCEPT ![b][a] =
                        [i \in 1..app.compare_configs |->
                            [done |-> FALSE, val |-> NewComparison(CompareConfigs[i])]]]
                  /\ appPc' = [appPc EXCEPT ![b][a] = "cmp"]
                  /\ writer' = b
                  /\ UNCHANGED <<apps, card, nFalse, detailVars>>
             ELSE /\ ReleaseOrFinish(b, a, app)
                  /\ UNCHANGED cmpTask
    /\ UNCHANGED <<refreshTask, batchPc, batchNext, relTask, envVars, srcVars>>

\* Mutant of CmpReturn: each branch-diff fetch appends its result to
\* app.comparisons as soon as it returns.
CmpReturn_WritesThrough(b, a, i, o) ==
    /\ appPc[b][a] = "cmp"
    /\ i \in DOMAIN cmpTask[b][a]
    /\ ~cmpTask[b][a][i].done
    /\ cmpTask' = [cmpTask EXCEPT ![b][a][i] =
                     [done |-> TRUE,
                      val |-> fetch_branch_comparison(TRUE, CompareConfigs[i], o).val]]
    /\ apps' = [apps EXCEPT ![a].comparisons =
                  Append(@, fetch_branch_comparison(TRUE, CompareConfigs[i], o).val)]
    /\ UNCHANGED <<card, refreshTask, batchPc, batchNext, appPc, relTask,
                   nFalse, writer, envVars, srcVars, detailVars>>

\* The call of the i-th fetch_branch_comparison is over with outcome o.
CmpReturn(b, a, i, o) ==
    /\ appPc[b][a] = "cmp"
    /\ i \in DOMAIN cmpTask[b][a]
    /\ ~cmpTask[b][a][i].done
    /\ cmpTask' = [cmpTask EXCEPT ![b][a][i] =
                     [done |-> TRUE,
                      val |-> fetch_branch_comparison(TRUE, CompareConfigs[i], o).val]]
    /\ UNCHANGED <<apps, card, refreshTask, batchPc, batchNext, appPc, relTask,
                   nFalse, writer, envVars, srcVars, detailVars>>

\* All branch-diff fetches have returned: app.comparisons = list(comparisons).
AppCmpDone(b, a) ==
    /\ appPc[b][a] = "cmp"
    /\ \A i \in DOMAIN cmpTask[b][a] : cmpTask[b][a][i].done
    /\ ReleaseOrFinish(b, a,
          [apps[a] EXCEPT !.comparisons =
              [i \in DOMAIN cmpTask[b][a] |-> cmpTask[b][a][i].val]])
    /\ cmpTask' = [cmpTask EXCEPT ![b][a] = <<>>]
    /\ UNCHANGED <<refreshTask, batchPc, batchNext, relTask, envVars, srcVars>>

\* The releases/latest call of fetch_latest_release is over with outcome o.
RelReturn(b, a, o) ==
    /\ appPc[b][a] = "rel"
    /\ LET r == Catch(ReleaseBody(o), NoRelease)
       IN  IF r.how = "run"
             THEN /\ relTask' = [relTask EXCEPT ![b][a] = r.val]
                  /\ appPc' = [appPc EXCEPT ![b][a] = "relrun"]
                  /\ UNCHANGED <<apps, card, nFalse, writer, detailVars>>
             ELSE /\ Finished(b, a, [apps[a] EXCEPT !.latest_release = r.val])
                  /\ UNCHANGED relTask
    /\ UNCHANGED <<refreshTask, batchPc, batchNext, cmpTask, envVars, srcVars>>

\* The build-run call of fetch_latest_release is over with outcome o.
RelRunReturn(b, a, o) ==
    /\ appPc[b][a] = "relrun"
    /\ Finished(b, a,
          [apps[a] EXCEPT !.latest_release =
              Catch(ReleaseRunBody(relTask[b][a], o), NoRelease).val])
    /\ relTask' = [relTask EXCEPT ![b][a] = NoRelease]
    /\ UNCHANGED <<refreshTask, batchPc, batchNext, cmpTask, envVars, srcVars>>

(***************************************************************************)
(* Fleet orchestrator (app.py, DeployStatusApp).                           *)
(***************************************************************************)
fetchVars == <<cmpTask, relTask, envTask, hung, obs>>

\* _load_all_status, one turn of its loop: create the task of the next app and
\* sleep 0.2 s.
\* Mutant of BatchLaunch: a cancelled batch goes on launching.
BatchLaunch_IgnoresCancel(b) ==
    /\ batchPc[b] \in {"created", "sleep", "cancelled"}
    /\ batchNext[b] <= Len(apps)
    /\ appPc' = [appPc EXCEPT ![b][batchNext[b]] = "start"]
    /\ batchNext' = [batchNext EXCEPT ![b] = @ + 1]
    /\ batchPc' = [batchPc EXCEPT ![b] = IF @ = "cancelled" THEN @ ELSE "sleep"]
    /\ UNCHANGED <<apps, card, refreshTask, nFalse, writer, fetchVars, srcVars, detailVars>>

\* Mutant of BatchLaunch: the next app is launched when the fetch of the
\* previous one is over.
BatchLaunch_AfterPrevious(b) ==
    /\ batchPc[b] \in {"created", "sleep"}
    /\ batchNext[b] <= Len(apps)
    /\ batchNext[b] > 1 => appPc[b][batchNext[b] - 1] = "done"
    /\ appPc' = [appPc EXCEPT ![b][batchNext[b]] = "start"]
    /\ batchNext' = [batchNext EXCEPT ![b] = @ + 1]
    /\ batchPc' = [batchPc EXCEPT ![b] = "sleep"]
    /\ UNCHANGED <<apps, card, refreshTask, nFalse, writer, fetchVars, srcVars, detailVars>>

BatchLaunch(b) ==
    /\ batchPc[b] \in {"created", "sleep"}
    /\ batchNext[b] <= Len(apps)
    /\ appPc' = [appPc EXCEPT ![b][batchNext[b]] = "start"]
    /\ batchNext' = [batchNext EXCEPT ![b] = @ + 1]
    /\ batchPc' = [batchPc EXCEPT ![b] = "sleep"]
    /\ UNCHANGED <<apps, card, refreshTask, nFalse, writer, fetchVars, srcVars, detailVars>>

\* _load_all_status after the sleep that follows the last launch: it awaits
\* asyncio.gather(*tasks, return_exceptions=True).
BatchGather(b) ==
    /\ batchPc[b] = "sleep"
    /\ batchNext[b] > Len(apps)
    /\ batchPc' = [batchPc EXCEPT ![b] = "gather"]
    /\ UNCHANGED <<apps, card, refreshTask, batchNext, appPc, nFalse, writer,
                   fetchVars, srcVars, detailVars>>

\* The gather is over: every task of the batch is done.
BatchDone(b) ==
    /\ batchPc[b] = "gather"
    /\ \A a \in AppIds : appPc[b][a] = "done"
    /\ batchPc' = [batchPc EXCEPT ![b] = "done"]
    /\ UNCHANGED <<apps, card, refreshTask, batchNext, appPc, nFalse, writer,
                   fetchVars, srcVars, detailVars>>

\* "Reset all apps to loading state"
\* Mutant of ResetApp: the workflows keep the status they have.
ResetApp_KeepsWorkflows(app) ==
    [app EXCEPT !.loading = TRUE, !.dev.status = LOADING, !.prod.status = LOADING]

ResetApp(app) ==
    LET reset(env) ==
            [env EXCEPT !.status = LOADING,
                        !.workflows = [i \in 1..Len(env.workflows) |->
                                         [env.workflows[i] EXCEPT !.status = LOADING]]]
    IN  [app EXCEPT !.loading = TRUE, !.dev = reset(app.dev), !.prod = reset(app.prod)]

\* Mutant of CancelReaches: cancelling a batch cancels its tasks in any phase.
CancelReaches_Always(b) == TRUE

\* Task.cancel() on a _load_all_status task reaches the app tasks only through
\* the gather it awaits: while the task sleeps between launches, or has not run
\* yet, the tasks it created are left alone.
CancelReaches(b) == batchPc[b] = "gather"

\* action_refresh, in a session with at most `max` refresh requests
action_refresh(max) ==
    /\ refreshTask <= max
    /\ LET old == refreshTask
           new == refreshTask + 1
           running == batchPc[old] # "done"
           dropped(a) == running /\ CancelReaches(old) /\ appPc[old][a] # "done"
       IN  /\ apps' = [a \in AppIds |-> ResetApp(apps[a])]
           /\ card' = [a \in AppIds |-> CardOf(ResetApp(apps[a]))]
           /\ batchPc' = [batchPc EXCEPT ![old] = IF running THEN "cancelled" ELSE @,
                                         ![new] = "created"]
           /\ appPc' = [appPc EXCEPT ![old] =
                          [a \in AppIds |-> IF dropped(a) THEN "cancelled" ELSE @[a]]]
           /\ envTask' = [envTask EXCEPT ![old] =
                            [a \in AppIds |->
                               IF dropped(a)
                                 THEN [e \in EnvNames |->
                                         IF @[a][e].pc \in {"none", "done"} THEN @[a][e]
                                         ELSE EnvAt("cancelled", 0)]
                                 ELSE @[a]]]
           /\ cmpTask' = [cmpTask EXCEPT ![old] =
                            [a \in AppIds |-> IF dropped(a) THEN <<>> ELSE @[a]]]
           /\ relTask' = [relTask EXCEPT ![old] =
                            [a \in AppIds |-> IF dropped(a) THEN NoRelease ELSE @[a]]]
           /\ hung' = {h \in hung : ~(h[1] = old /\ dropped(h[2]))}
           /\ refreshTask' = new
    /\ writer' = 0
    /\ nFalse' = [a \in AppIds |-> 0]
    /\ obs' = [a \in AppIds |-> [e \in EnvNames |-> [i \in 0..MaxWf |-> NoObs]]]
    /\ IF selected_app # 0 THEN update_detail_view(selected_app)
                           ELSE UNCHANGED detailVars
    /\ UNCHANGED <<batchNext, srcVars>>

Refresh == action_refresh(MaxRefresh)

(***************************************************************************)
(* The dashboard session: mount, then fetches and refresh requests, with   *)
(* sources that answer every call.                                         *)
(***************************************************************************)
Run(st, con, id, ok) ==
    [kind |-> "run", run |-> [status |-> st, conclusion |-> con, id |-> id, nameok |-> ok]]
Failed(k) == [kind |-> k, run |-> NoRun]

SessionRuns == {Run("completed", "failure", 42, TRUE)}
SessionLogs == {[kind |-> "ok", lines |-> <<"l1">>]}
SessionCommits ==
    {[kind |-> "ok", commit |-> [sha |-> "abc1234", message |-> "fix", date |-> "ok"]]}
SessionDiffs ==
    {[kind |-> "ok", data |-> [ahead_by |-> 3, behind_by |-> 1, commits |-> <<>>]]}
SessionReleases == {[kind |-> "ok", tag |-> "v1"]}
SessionReleaseRuns == {Run("completed", "success", 42, TRUE)}

\* Every step but a refresh request: the event loop runs a ready task.
Progress ==
    \/ \E b \in Batches : BatchLaunch(b)
    \/ \E b \in Batches : BatchGather(b)
    \/ \E b \in Batches : BatchDone(b)
    \/ \E b \in Batches, a \in AppIds : AppStart(b, a)
    \/ \E b \in Batches, a \in AppIds, e \in EnvNames : EnvStart(b, a, e)
    \/ \E b \in Batches, a \in AppIds, e \in EnvNames, o \in SessionRuns :
          RunReturn(b, a, e, o)
    \/ \E b \in Batches, a \in AppIds, e \in EnvNames, o \in SessionLogs :
          LogReturn(b, a, e, o)
    \/ \E b \in Batches, a \in AppIds, e \in EnvNames, o \in SessionCommits :
          CommitReturn(b, a, e, o)
    \/ \E b \in Batches, a \in AppIds : AppEnvsDone(b, a)
    \/ \E b \in Batches, a \in AppIds, i \in 1..Len(CompareConfigs), o \in SessionDiffs :
          CmpReturn(b, a, i, o)
    \/ \E b \in Batches, a \in AppIds : AppCmpDone(b, a)
    \/ \E b \in Batches, a \in AppIds, o \in SessionReleases : RelReturn(b, a, o)
    \/ \E b \in Batches, a \in AppIds, o \in SessionReleaseRuns : RelRunReturn(b, a, o)

Next == Progress \/ Refresh

Spec == Init /\ [][Next]_vars


\* The event loop runs every task that is ready, and every external call
\* returns: some step other than a refresh request is eventually taken while
\* one is possible.
LiveSpec == Init /\ [][Next]_vars /\ WF_vars(Progress)

(***************************************************************************)
(* Refresh and cancellation.                                               *)
(***************************************************************************)
InFlight == {"start", "envs", "cmp", "rel", "relrun"}

\* C1: once a refresh is requested, no fetcher launched by an earlier batch
\* writes a field of an App, Environment or Workflow: every write since the
\* last request is by a fetcher of the newest batch.
C1_NoStaleWrite == writer \in {0, refreshTask}

\* C2: each App has at most one App Fetcher in flight.
C2_OneFetcherPerApp ==
    \A a \in AppIds : Cardinality({b \in Batches : appPc[b][a] \in InFlight}) <= 1

\* C3: loading stays true from the refresh request until the App Fetcher of that
\* cycle has finished all its steps, and is set to false once in the cycle.
C3_LoadingUntilDone ==
    \A a \in AppIds :
        /\ ~apps[a].loading => appPc[refreshTask][a] = "done"
        /\ nFalse[a] <= 1

\* C4: when calls return and refresh requests stop, every App ends up fetched
\* to completion by the newest batch, with loading false, and published.
C4_LastBatchCompletes ==
    <>[](\A a \in AppIds :
            /\ appPc[refreshTask][a] = "done"
            /\ ~apps[a].loading
            /\ ~card[a].loading)

\* A refresh cancelled a batch that had launched only part of the inventory, and
\* the new batch has fetched and published every app.
C4_Witness ==
    /\ refreshTask = 2
    /\ batchPc[1] = "cancelled"
    /\ batchNext[1] = 2
    /\ \A a \in AppIds :
          appPc[2][a] = "done" /\ ~apps[a].loading /\ ~card[a].loading


(***************************************************************************)
(* One mount cycle of one app whose production environment has MaxWf named *)
(* workflows or none, with every outcome of every external call.           *)
(***************************************************************************)
\* Environments without a repository: declared with status NONE or left at the
\* default LOADING, with or without a workflow.
Unconfigured ==
    {[NewEnvironment(FALSE, n) EXCEPT !.status = st] :
        n \in {0, 1}, st \in {NONE, LOADING}}

EnvInit ==
    /\ \E dev \in Unconfigured, n \in {0, MaxWf} :
          apps = <<NewApp(dev, NewEnvironment(TRUE, n), 0, FALSE)>>
    /\ TasksInit
    /\ SourceIdle

\* Every way a call fails, and the runs that differ in how they are classified,
\* in whether they have an id and in whether they belong to the named workflow.
EnvRuns ==
    {Failed(k) : k \in CallFailures}
    \cup {Run(st, con, id, ok) : st \in {"completed", "in_progress", ""},
                                 con \in {"success", "failure"},
                                 id \in RunIds, ok \in BOOLEAN}
EnvByName ==
    {Failed(k) : k \in {"spawnfail", "nonzero", "garbage", "emptylist"}}
    \cup {Run(st, con, id, TRUE) : st \in {"completed", "in_progress", ""},
                                   con \in {"success", "failure"}, id \in RunIds}
EnvLogs ==
    {[kind |-> k, lines |-> <<>>] : k \in {"spawnfail", "nonzero"}}
    \cup {[kind |-> "ok", lines |-> <<"l1">>]}
EnvCommits ==
    {[kind |-> k, commit |-> NoCommit] : k \in {"spawnfail", "nonzero", "garbage"}}
    \cup {[kind |-> "ok", commit |-> [sha |-> "abc1234", message |-> "fix", date |-> "ok"]]}

EnvProgress ==
    \/ \E b \in Batches : BatchLaunch(b)
    \/ \E b \in Batches : BatchGather(b)
    \/ \E b \in Batches : BatchDone(b)
    \/ \E b \in Batches, a \in AppIds : AppStart(b, a)
    \/ \E b \in Batches, a \in AppIds, e \in EnvNames : EnvStart(b, a, e)
    \/ \E b \in Batches, a \in AppIds, e \in EnvNames, o \in EnvRuns :
          RunReturn(b, a, e, o)
    \/ \E b \in Batches, a \in AppIds, e \in EnvNames, o \in EnvByName :
          ByNameReturn(b, a, e, o)
    \/ \E b \in Batches, a \in AppIds, e \in EnvNames, o \in ActorOutcomes :
          ActorReturn(b, a, e, o)
    \/ \E b \in Batches, a \in AppIds, e \in EnvNames, o \in EnvLogs :
          LogReturn(b, a, e, o)
    \/ \E b \in Batches, a \in AppIds, e \in EnvNames, o \in EnvCommits :
          CommitReturn(b, a, e, o)
    \/ \E b \in Batches, a \in AppIds : AppEnvsDone(b, a)

EnvSpec == EnvInit /\ [][EnvProgress]_vars

\* The same cycle with sources that may never answer; the event loop still runs
\* every task that is ready and every call that is answered resumes its fetcher.
HangNext ==
    \/ EnvProgress
    \/ \E b \in Batches, a \in AppIds, e \in EnvNames : CallHangs(b, a, e)

HangSpec == EnvInit /\ [][HangNext]_vars /\ WF_vars(EnvProgress)


\* C5: a fetch whose external call never responds is resolved by a timeout, so
\* the environment fetchers and the app fetcher that wait for it terminate.
C5_FetchersTerminate ==
    <>(\A a \in AppIds :
          appPc[1][a] = "done" /\ \A e \in EnvNames : envTask[1][a][e].pc = "done")

\* The classification the Source Adapter contract gives a run.
ExpectedStatus(st, con) ==
    CASE st = "completed" /\ con = "success" -> SUCCESS
      [] st = "completed" /\ con # "success" -> FAILURE
      [] st \in {"in_progress", "queued", "waiting"} -> RUNNING
      [] OTHER -> NONE

\* C6: when the workflow-run fetch of workflow i fails and that of workflow j
\* gives a run, the environment fetcher is not aborted, leaves i at NONE and j at
\* the classification of j's run.
C6_Isolation ==
    \A a \in AppIds, e \in EnvNames :
        LET env == apps[a][e]
            t == envTask[1][a][e]
            seen == obs[a][e]
        IN  /\ t.pc # "raised"
            /\ t.pc \in {"commit", "done"} =>
                 \A i, j \in 1..Len(env.workflows) :
                    (i # j /\ seen[i].seen /\ seen[i].fail /\ seen[j].seen /\ ~seen[j].fail)
                    => /\ env.workflows[i].status = NONE
                       /\ env.workflows[j].status =
                            ExpectedStatus(seen[j].status, seen[j].conclusion)

\* The fetcher has returned; the run fetch of the second workflow failed after
\* the first one's gave a successful run, which is still shown.
C6_Witness ==
    /\ envTask[1][1]["prod"].pc = "done"
    /\ obs[1]["prod"][2].seen /\ obs[1]["prod"][2].fail
    /\ obs[1]["prod"][1].seen /\ ~obs[1]["prod"][1].fail
    /\ obs[1]["prod"][1].status = "completed" /\ obs[1]["prod"][1].conclusion = "success"
    /\ apps[1].prod.workflows[1].status = SUCCESS
    /\ apps[1].prod.workflows[2].status = NONE

\* C14: an environment fetcher on an environment without a repository sets
\* its status to NONE and returns; it never waits for a source call and no
\* response is ever applied to the environment or its workflows.
C14_NoRepoNoCall ==
    \A b \in Batches, a \in AppIds, e \in EnvNames :
        ~apps[a][e].repo =>
            /\ envTask[b][a][e].pc \in {"none", "start", "done"}
            /\ envTask[b][a][e].pc = "done" => apps[a][e].status = NONE
            /\ \A i \in DOMAIN obs[a][e] : ~obs[a][e][i].seen
            /\ apps[a][e].last_commit = Null /\ apps[a][e].run_id = 0
            /\ \A i \in 1..Len(apps[a][e].workflows) :
                  apps[a][e].workflows[i] = NewWorkflow

\* The fetcher of an environment without a repository that declares a workflow
\* has returned: status NONE, the workflow untouched.
C14_Witness ==
    /\ ~apps[1].dev.repo /\ has_workflows(apps[1].dev)
    /\ envTask[1][1]["dev"].pc = "done"
    /\ apps[1].dev.status = NONE
    /\ apps[1].dev.workflows[1].status = LOADING

\* Workflow i of the environment, or the environment itself for i = 0.
Entity(env, i) == IF i > 0 THEN env.workflows[i] ELSE env

\* C15: an error-log fetch is issued exactly for the entities whose run fetch
\* gave FAILURE with a run id, after that fetch and for that run id, and such
\* an entity ends the call with status FAILURE and that run id.
C15_LogsOnlyForFailures ==
    \A a \in AppIds, e \in EnvNames :
        LET env == apps[a][e]
            t == envTask[1][a][e]
        IN  /\ \A i \in DOMAIN obs[a][e] :
                 LET ob == obs[a][e][i]
                 IN  /\ ob.logged <=>
                          (ob.seen /\ ~ob.fail /\ ob.id # 0
                             /\ ExpectedStatus(ob.status, ob.conclusion) = FAILURE)
                     /\ ob.logged => ob.log_id = ob.id
                     /\ (ob.logged /\ t.pc = "done") =>
                          (Entity(env, i).status = FAILURE
                             /\ Entity(env, i).run_id = ob.id)
            /\ t.pc = "log" => obs[a][e][t.idx].logged

\* The fetcher has returned: the first workflow failed in run 42 and has its
\* log lines, the second one succeeded and no log was fetched for it.
C15_Witness ==
    /\ envTask[1][1]["prod"].pc = "done"
    /\ Len(apps[1].prod.workflows) >= 2
    /\ obs[1]["prod"][1].logged /\ obs[1]["prod"][1].log_id = 42
    /\ apps[1].prod.workflows[1].status = FAILURE
    /\ apps[1].prod.workflows[1].run_id = 42
    /\ apps[1].prod.workflows[1].error_lines = <<"l1">>
    /\ apps[1].prod.workflows[2].status = SUCCESS
    /\ ~obs[1]["prod"][2].logged

\* The workflows whose run fetch an environment fetcher has started so far.
Started(t) == IF t.pc \in {"none", "start"} THEN {} ELSE 1..t.idx

\* C7: while an environment fetcher waits for the run fetch or the error-log
\* fetch of one workflow, the run fetches of all its workflows have been started.
C7_WorkflowFetchesConcurrent ==
    \A b \in Batches, a \in AppIds, e \in EnvNames :
        (envTask[b][a][e].pc \in {"run", "byname", "actor", "log"}
            /\ has_workflows(apps[a][e]))
        => Started(envTask[b][a][e]) = 1..Len(apps[a][e].workflows)

(***************************************************************************)
(* The source adapters alone: one fetch, every outcome of its calls.       *)
(***************************************************************************)
\* The environments a health probe can find: without a url, or with one and
\* either never probed or left by an earlier probe.
ProbedEnvironments ==
    {NewEnvironment(FALSE, 0), NewEnvironment(TRUE, 0)}
    \cup {fetch_health_check(NewEnvironment(TRUE, 0), o).val : o \in HealthOutcomes}

SourceInputs ==
    {[NoFetch EXCEPT !.fetch = "workflow", !.target = t, !.named = n, !.run = o] :
        t \in BOOLEAN, n \in BOOLEAN, o \in RunOutcomes}
    \cup {[NoFetch EXCEPT !.fetch = "workflow", !.named = TRUE, !.run = o,
                          !.byname = ob, !.actor = oa] :
            o \in {Run("completed", "success", 42, FALSE)},
            ob \in ByNameOutcomes, oa \in ActorOutcomes}
    \cup {[NoFetch EXCEPT !.fetch = "log", !.log = o] : o \in LogOutcomes}
    \cup {[NoFetch EXCEPT !.fetch = "commit", !.target = t, !.commit = o] :
            t \in BOOLEAN, o \in CommitOutcomes}
    \cup {[NoFetch EXCEPT !.fetch = "compare", !.target = t, !.diff = o] :
            t \in BOOLEAN, o \in DiffOutcomes}
    \cup {[NoFetch EXCEPT !.fetch = "release", !.release = o, !.relrun = orun] :
            o \in ReleaseOutcomes, orun \in ReleaseRunOutcomes}
    \cup {[NoFetch EXCEPT !.fetch = "health", !.env = env, !.health = o] :
            env \in ProbedEnvironments, o \in HealthOutcomes}

SourceInit ==
    /\ apps = get_apps
    /\ TasksInit
    /\ srcIn \in SourceInputs
    /\ srcOut = [how |-> "none"]

\* The caller awaits the fetch and gets what it returns, or its exception.
SourceFetch ==
    /\ srcOut.how = "none"
    /\ srcOut' =
         CASE srcIn.fetch = "workflow" ->
                fetch_workflow_status(srcIn.target, srcIn.named, srcIn.run,
                                      srcIn.byname, srcIn.actor)
           [] srcIn.fetch = "log" -> fetch_error_logs(srcIn.log)
           [] srcIn.fetch = "commit" -> fetch_latest_commit(srcIn.target, srcIn.commit)
           [] srcIn.fetch = "compare" ->
                fetch_branch_comparison(srcIn.target, CompareConfigs[1], srcIn.diff)
           [] srcIn.fetch = "release" ->
                fetch_latest_release(srcIn.release, srcIn.relrun)
           [] srcIn.fetch = "health" -> fetch_health_check(srcIn.env, srcIn.health)
    /\ UNCHANGED <<apps, card, refreshTask, batchPc, batchNext, appPc, envTask,
                   cmpTask, relTask, hung, writer, nFalse, obs, srcIn, detailVars>>

SourceSpec == SourceInit /\ [][SourceFetch]_vars

\* The fetch falls back to the by-name lookup, whose response then decides.
FellBack(in) == in.named /\ in.run.kind = "run" /\ ~in.run.run.nameok

\* A failure outcome of the fetch under test: a call that was made failed (no
\* process, non-zero exit, no or null output, output that does not parse) or
\* its JSON lacks a field the fetch reads (status; the commit message).
FailureOutcome(in) ==
    /\ in.target
    /\ CASE in.fetch = "workflow" ->
              IF FellBack(in)
                  THEN \/ in.byname.kind # "run"
                       \/ in.byname.run.status = ""
                       \/ NeedsActor(in.byname) /\ in.actor = "spawnfail"
                  ELSE in.run.kind # "run" \/ in.run.run.status = ""
         [] in.fetch = "log" -> in.log.kind # "ok"
         [] in.fetch = "commit" -> in.commit.kind # "ok" \/ in.commit.commit.message = ""
         [] in.fetch = "compare" ->
              \/ in.diff.kind # "ok"
              \/ \E i \in 1..Len(in.diff.data.commits) :
                    in.diff.data.commits[i].message = ""
         [] OTHER -> FALSE

\* The neutral value of the fetch under test.
Neutral(in, val) ==
    CASE in.fetch = "workflow" -> val.status = NONE
      [] in.fetch = "log" -> val = <<>>
      [] in.fetch = "commit" -> val = Null
      [] in.fetch = "compare" ->
           val.ahead_by = 0 /\ val.behind_by = 0 /\ val.commits = <<>>
      [] OTHER -> TRUE

\* C8: for every outcome of the external call the workflow-run, error-log,
\* commit and branch-diff fetches return and never raise, and every failure
\* outcome returns the neutral value.
C8_ReturnsNeutralOnFailure ==
    srcOut.how # "none" =>
        /\ srcOut.how = "return"
        /\ FailureOutcome(srcIn) => Neutral(srcIn, srcOut.val)

(***************************************************************************)
(* The rollups alone: an app whose environment fetchers have returned with *)
(* every combination of workflow statuses, about to be published.          *)
(***************************************************************************)
\* An environment as the app fetcher can find it when both environment fetchers
\* have returned.  A status is LOADING where a refresh request reset it after
\* the fetcher that survives the request had written it.  The own status of an
\* environment with workflows is only written by a refresh request (LOADING)
\* or, when it has no repository, by its fetcher (NONE).
RolledEnvironments(maxwf) ==
    {[NewEnvironment(TRUE, 0) EXCEPT !.status = st] : st \in Status}
    \cup UNION {
        {[NewEnvironment(r, n) EXCEPT
            !.workflows = [i \in 1..n |-> [NewWorkflow EXCEPT !.status = w[i]]]] :
            w \in [1..n -> Status], r \in BOOLEAN} : n \in 1..maxwf}

RollupInit ==
    /\ \E dev \in RolledEnvironments(0), prod \in RolledEnvironments(MaxWf) :
          apps = <<NewApp(dev, prod, 0, FALSE)>>
    /\ card = [a \in AppIds |-> CardOf(ResetApp(apps[a]))]
    /\ refreshTask = 1
    /\ batchPc = [b \in Batches |-> IF b = 1 THEN "gather" ELSE "none"]
    /\ batchNext = [b \in Batches |-> IF b = 1 THEN Len(apps) + 1 ELSE 1]
    /\ appPc = [b \in Batches |-> [a \in AppIds |-> IF b = 1 THEN "envs" ELSE "none"]]
    /\ envTask = [b \in Batches |-> [a \in AppIds |-> [e \in EnvNames |->
                    IF b = 1 THEN EnvAt("done", 0) ELSE IdleEnvTask]]]
    /\ cmpTask = [b \in Batches |-> [a \in AppIds |-> <<>>]]
    /\ relTask = [b \in Batches |-> [a \in AppIds |-> NoRelease]]
    /\ hung = {}
    /\ writer = 0
    /\ nFalse = [a \in AppIds |-> 0]
    /\ obs = [a \in AppIds |-> [e \in EnvNames |-> [i \in 0..MaxWf |-> NoObs]]]
    /\ DetailClosed
    /\ SourceIdle

RollupNext ==
    \/ \E b \in Batches, a \in AppIds : AppEnvsDone(b, a)
    \/ \E b \in Batches : BatchDone(b)

RollupSpec == RollupInit /\ [][RollupNext]_vars

\* "s in statuses"
Has(x, W) == \E i \in 1..Len(W) : W[i] = x
AllSuccess(W) == \A i \in 1..Len(W) : W[i] = SUCCESS
Settled(W) == ~Has(FAILURE, W) /\ ~Has(RUNNING, W) /\ ~Has(LOADING, W)
Published(a) == appPc[1][a] = "done" /\ ~card[a].loading

\* C9: the rollup of a workflow sequence is FAILURE if and only if one of its
\* workflows has status FAILURE, and so is what the card of an environment with
\* workflows shows.
C9_FailureIffAnyFailure ==
    \A a \in AppIds, e \in EnvNames :
        LET W == Statuses(apps[a][e])
        IN  /\ RollupWorkflows(W) = FAILURE <=> Has(FAILURE, W)
            /\ (Published(a) /\ has_workflows(apps[a][e]))
                 => (card[a][e] = FAILURE <=> Has(FAILURE, W))

\* A published environment that has a RUNNING workflow beside a FAILURE one.
C9_Witness ==
    /\ Published(1)
    /\ Has(FAILURE, Statuses(apps[1].prod)) /\ Has(RUNNING, Statuses(apps[1].prod))
    /\ card[1].prod = FAILURE

Unsettled == {FAILURE, RUNNING, LOADING}

\* C11: the app rollup is SUCCESS if and only if neither effective status is
\* FAILURE, RUNNING or LOADING and at least one is SUCCESS, and so is the status
\* a published card shows.
C11_AppSuccessIffOneSuccess ==
    \A a \in AppIds :
        LET d == overall_status(apps[a].dev)
            p == overall_status(apps[a].prod)
        IN  /\ app_overall_status(apps[a]) = SUCCESS
                 <=> (d \notin Unsettled /\ p \notin Unsettled
                        /\ (d = SUCCESS \/ p = SUCCESS))
            /\ Published(a) =>
                 (card[a].status = SUCCESS
                    <=> (card[a].dev \notin Unsettled /\ card[a].prod \notin Unsettled
                           /\ (card[a].dev = SUCCESS \/ card[a].prod = SUCCESS)))

\* A published app with one environment SUCCESS and the other NONE: SUCCESS.
C11_Witness ==
    /\ Published(1)
    /\ card[1].dev = NONE /\ card[1].prod = SUCCESS
    /\ card[1].status = SUCCESS

\* Position in the precedence FAILURE > RUNNING > LOADING > SUCCESS > NONE.
Rank(st) ==
    CASE st = FAILURE -> 4 [] st = RUNNING -> 3 [] st = LOADING -> 2
      [] st = SUCCESS -> 1 [] OTHER -> 0
Highest(d, p) == IF Rank(d) >= Rank(p) THEN d ELSE p

\* The app with its two environments exchanged.
Swapped(app) == [app EXCEPT !.dev = app.prod, !.prod = app.dev]

\* C12: the app rollup is the higher of the two effective statuses in the
\* precedence FAILURE > RUNNING > LOADING > SUCCESS > NONE and does not change
\* when dev and prod are exchanged.
C12_AppRollupIsHighest ==
    \A a \in AppIds :
        /\ app_overall_status(apps[a])
             = Highest(overall_status(apps[a].dev), overall_status(apps[a].prod))
        /\ app_overall_status(Swapped(apps[a])) = app_overall_status(apps[a])
        /\ Published(a) => card[a].status = Highest(card[a].dev, card[a].prod)

\* A published app with one environment LOADING and the other SUCCESS: LOADING.
C12_Witness ==
    /\ Published(1)
    /\ card[1].dev = LOADING /\ card[1].prod = SUCCESS
    /\ card[1].status = LOADING

\* C13: the effective status of an environment with workflows is the rollup of
\* its workflows whatever its own stored status is, and that of an environment
\* without workflows is its own stored status.
C13_EffectiveStatus ==
    \A a \in AppIds, e \in EnvNames :
        LET env == apps[a][e]
        IN  /\ has_workflows(env) =>
                 \A st \in Status :
                    overall_status([env EXCEPT !.status = st])
                      = RollupWorkflows(Statuses(env))
            /\ ~has_workflows(env) => overall_status(env) = env.status
            /\ Published(a) =>
                 card[a][e] = (IF Len(env.workflows) > 0
                                 THEN RollupWorkflows(Statuses(env)) ELSE env.status)

\* A published environment whose own status (NONE) differs from the rollup of
\* its workflows (SUCCESS), beside one without workflows showing its own status.
C13_Witness ==
    /\ Published(1)
    /\ has_workflows(apps[1].prod) /\ apps[1].prod.status = NONE
    /\ card[1].prod = SUCCESS
    /\ ~has_workflows(apps[1].dev) /\ card[1].dev = apps[1].dev.status
    /\ card[1].dev = RUNNING

(***************************************************************************)
(* One mount cycle of one app that has a development environment with a    *)
(* repository, no production environment, a branch comparison and release  *)
(* tracking, with every outcome of every external call.                    *)
(***************************************************************************)
AppInit ==
    /\ apps = <<NewApp(NewEnvironment(TRUE, 0), NewEnvironment(FALSE, 0), 1, TRUE)>>
    /\ TasksInit
    /\ SourceIdle

AppRuns ==
    {Failed(k) : k \in CallFailures}
    \cup {Run(st, con, id, TRUE) : st \in {"completed", "in_progress", ""},
                                   con \in {"success", "failure"}, id \in RunIds}
AppReleaseRuns ==
    {Failed(k) : k \in {"spawnfail", "nonzero", "empty", "garbage"}}
    \cup {Run("completed", con, 42, TRUE) : con \in {"success", "failure"}}

AppProgress ==
    \/ \E b \in Batches : BatchLaunch(b)
    \/ \E b \in Batches : BatchGather(b)
    \/ \E b \in Batches : BatchDone(b)
    \/ \E b \in Batches, a \in AppIds : AppStart(b, a)
    \/ \E b \in Batches, a \in AppIds, e \in EnvNames : EnvStart(b, a, e)
    \/ \E b \in Batches, a \in AppIds, e \in EnvNames, o \in AppRuns :
          RunReturn(b, a, e, o)
    \/ \E b \in Batches, a \in AppIds, e \in EnvNames, o \in EnvLogs :
          LogReturn(b, a, e, o)
    \/ \E b \in Batches, a \in AppIds, e \in EnvNames, o \in EnvCommits :
          CommitReturn(b, a, e, o)
    \/ \E b \in Batches, a \in AppIds : AppEnvsDone(b, a)
    \/ \E b \in Batches, a \in AppIds, i \in 1..Len(CompareConfigs), o \in DiffOutcomes :
          CmpReturn(b, a, i, o)
    \/ \E b \in Batches, a \in AppIds : AppCmpDone(b, a)
    \/ \E b \in Batches, a \in AppIds, o \in ReleaseOutcomes : RelReturn(b, a, o)
    \/ \E b \in Batches, a \in AppIds, o \in AppReleaseRuns : RelRunReturn(b, a, o)

AppSpec == AppInit /\ [][AppProgress]_vars

\* C16: when the app fetcher of an app with loading=true has completed, the
\* development environment has a repository and its run fetch gave SUCCESS and
\* the production environment has no repository, then prod's status is NONE,
\* dev's effective status is SUCCESS, the app rollup is SUCCESS and loading is
\* false.
C16_DevSuccessNoProd ==
    \A a \in AppIds :
        (/\ appPc[1][a] = "done"
         /\ apps[a].dev.repo /\ ~apps[a].prod.repo
         /\ obs[a]["dev"][0].seen /\ ~obs[a]["dev"][0].fail
         /\ ExpectedStatus(obs[a]["dev"][0].status, obs[a]["dev"][0].conclusion) = SUCCESS)
        => /\ apps[a].prod.status = NONE
           /\ overall_status(apps[a].dev) = SUCCESS
           /\ app_overall_status(apps[a]) = SUCCESS
           /\ ~apps[a].loading
           /\ card[a] = [loading |-> FALSE, dev |-> SUCCESS, prod |-> NONE,
                         status |-> SUCCESS]

\* The app fetcher has completed after the run fetch of dev gave a successful run.
C16_Witness ==
    /\ appPc[1][1] = "done"
    /\ obs[1]["dev"][0].seen /\ ~obs[1]["dev"][0].fail
    /\ obs[1]["dev"][0].status = "completed" /\ obs[1]["dev"][0].conclusion = "success"
    /\ apps[1].dev.status = SUCCESS /\ apps[1].prod.status = NONE
    /\ ~apps[1].loading

\* The steps an app fetcher has to go through before it completes.
LastStep(app) ==
    IF app.track_releases /\ AppRepo(app) THEN {"rel", "relrun"}
    ELSE IF app.compare_configs > 0 /\ AppRepo(app) THEN {"cmp"}
    ELSE {"envs"}

\* C17: whatever the sub-fetches of an app fetcher do, none of them raises into
\* it, it completes only after its last step (the release fetch, else the
\* branch-diff fetches, else the environment fetchers), which no earlier failure
\* skips, and when it has completed loading is false, the card shows it and
\* there is one comparison per config.
C17_AppFetcherCompletes ==
    /\ [](\A b \in Batches, a \in AppIds :
            /\ \A e \in EnvNames : envTask[b][a][e].pc # "raised"
            /\ appPc[b][a] = "done" =>
                 /\ ~apps[a].loading /\ ~card[a].loading
                 /\ AppRepo(apps[a]) => Len(apps[a].comparisons) = apps[a].compare_configs)
    /\ [][\A b \in Batches, a \in AppIds :
            (appPc[b][a] # "done" /\ appPc'[b][a] = "done")
            => appPc[b][a] \in LastStep(apps[a])]_vars

\* The app fetcher has completed although the run fetch, the commit fetch, the
\* branch-diff fetch and the release fetch all failed.
C17_Witness ==
    /\ appPc[1][1] = "done"
    /\ obs[1]["dev"][0].seen /\ obs[1]["dev"][0].fail
    /\ apps[1].dev.status = NONE /\ apps[1].dev.last_commit = Null
    /\ apps[1].comparisons = <<NewComparison(CompareConfigs[1])>>
    /\ apps[1].latest_release = NoRelease
    /\ ~apps[1].loading /\ ~card[1].loading

\* C19: the step in which an app fetcher completes updates the card of its app
\* with the app as it is then, loading=false, whatever the fetchers of the
\* other apps are doing.
C19_PublishOnCompletion ==
    [][\A b \in Batches, a \in AppIds :
          (appPc[b][a] # "done" /\ appPc'[b][a] = "done")
          => (card'[a] = CardOf(apps'[a]) /\ ~card'[a].loading)]_vars

\* The second app of the inventory is published while the fetch of the first
\* one is still running and its card still shows loading.
C19_Witness ==
    /\ refreshTask = 1
    /\ appPc[1][2] = "done" /\ ~card[2].loading
    /\ appPc[1][1] \in InFlight /\ card[1].loading

(***************************************************************************)
(* One mount cycle of a fleet of apps that each have a development         *)
(* environment with a repository, with sources that may fail or never      *)
(* answer.                                                                 *)
(***************************************************************************)
FleetInit ==
    /\ apps = [i \in 1..NApps |->
                 NewApp(NewEnvironment(TRUE, 0), NewEnvironment(FALSE, 0), 0, FALSE)]
    /\ TasksInit
    /\ SourceIdle

FleetRuns == {Failed("nonzero"), Failed("garbage"), Run("completed", "success", 42, TRUE)}
FleetCommits ==
    {[kind |-> "nonzero", commit |-> NoCommit],
     [kind |-> "ok", commit |-> [sha |-> "abc1234", message |-> "fix", date |-> "ok"]]}

FleetProgress ==
    \/ \E b \in Batches : BatchLaunch(b)
    \/ \E b \in Batches : BatchGather(b)
    \/ \E b \in Batches : BatchDone(b)
    \/ \E b \in Batches, a \in AppIds : AppStart(b, a)
    \/ \E b \in Batches, a \in AppIds, e \in EnvNames : EnvStart(b, a, e)
    \/ \E b \in Batches, a \in AppIds, e \in EnvNames, o \in FleetRuns :
          RunReturn(b, a, e, o)
    \/ \E b \in Batches, a \in AppIds, e \in EnvNames, o \in FleetCommits :
          CommitReturn(b, a, e, o)
    \/ \E b \in Batches, a \in AppIds : AppEnvsDone(b, a)

FleetNext ==
    \/ FleetProgress
    \/ \E b \in Batches, a \in AppIds, e \in EnvNames : CallHangs(b, a, e)

\* The event loop runs every task that is ready; a call that has not hung returns.
FleetSpec == FleetInit /\ [][FleetNext]_vars /\ WF_vars(FleetProgress)

\* A call of the app's fetch never responds.
Stuck(a) == \E e \in EnvNames : <<1, a, e>> \in hung

\* C20: every app of a batch whose own calls all return completes its fetch,
\* reaches loading=false and is published, whether the fetches of the other
\* apps succeed, fail or wait forever.
C20_OthersStillComplete ==
    \A a \in 1..NApps :
        <>(Stuck(a) \/ (appPc[1][a] = "done" /\ ~apps[a].loading /\ ~card[a].loading))

\* The first app waits for a call that never responds and is still loading; the
\* second one has completed and is published, the third call of the batch
\* having failed for it.
C20_Witness ==
    /\ Stuck(1) /\ apps[1].loading /\ appPc[1][1] = "envs"
    /\ ~Stuck(2) /\ appPc[1][2] = "done" /\ ~apps[2].loading /\ ~card[2].loading
    /\ obs[2]["dev"][0].fail

(***************************************************************************)
(* The detail view (app.py, widgets/detail_view.py): selecting a card      *)
(* mounts a DetailView, whose health task probes the urls of the app.      *)
(***************************************************************************)
\* DeployStatusApp.on_app_card_selected
Select(a) ==
    /\ update_detail_view(a)
    /\ UNCHANGED <<apps, orchVars, fetchVars, writer, srcVars>>

\* DeployStatusApp.action_close_detail
CloseDetail ==
    /\ selected_app # 0
    /\ selected_app' = 0
    /\ UNCHANGED <<apps, orchVars, fetchVars, writer, srcVars, healthTask>>

\* The environments DetailView._run_health_checks probes: those with a url.
Probed(app) == {e \in EnvNames : app[e].url}

\* DetailView._run_health_checks up to its gather: fetch_health_check sends one
\* GET per environment with a url.
HealthStart(a) ==
    /\ healthTask[a] = "created"
    /\ healthTask' = [healthTask EXCEPT ![a] =
                        IF Probed(apps[a]) # {} THEN "probing" ELSE "done"]
    /\ UNCHANGED <<apps, orchVars, fetchVars, writer, srcVars, selected_app>>

\* The GETs of the session: a response 200, or a timeout.
SelectHealth == {o \in HealthOutcomes : o.kind = "timeout" \/ o.code = 200}

\* The GETs are over with outcomes o: fetch_health_check sets env.health_ok and
\* the gather of _run_health_checks returns.
HealthReturn(a, o) ==
    /\ healthTask[a] = "probing"
    /\ apps' = [apps EXCEPT ![a] =
                  [f \in DOMAIN @ |->
                     IF f \in Probed(apps[a])
                       THEN fetch_health_check(@[f], o[f]).val
                       ELSE @[f]]]
    /\ healthTask' = [healthTask EXCEPT ![a] = "done"]
    /\ UNCHANGED <<orchVars, fetchVars, writer, srcVars, selected_app>>

\* A session in which the user opens and closes detail views while the first
\* batch runs.
SelectNext ==
    \/ Progress
    \/ \E a \in AppIds : Select(a)
    \/ CloseDetail
    \/ \E a \in AppIds : HealthStart(a)
    \/ \E a \in AppIds, o \in [EnvNames -> SelectHealth] : HealthReturn(a, o)

SelectSpec == Init /\ [][SelectNext]_vars

\* C18: selecting an app, and re-rendering the detail view of the selected
\* app, starts no external call: no health probe is ever in flight.
C18_SelectionIssuesNoCall ==
    \A a \in AppIds : healthTask[a] # "probing"

(***************************************************************************)
(* The environment fetchers of one app called twice in sequence against a  *)
(* source that gives the same response to the same call.                   *)
(***************************************************************************)
TwiceRuns ==
    {Failed("nonzero"), Run("completed", "success", 42, TRUE),
     Run("completed", "failure", 42, TRUE), Run("completed", "failure", 0, TRUE),
     Run("in_progress", "", 42, FALSE)}
TwiceByName ==
    {Failed("emptylist"), Run("completed", "failure", 42, TRUE),
     Run("completed", "success", 0, TRUE)}

\* The responses of the source: to the run call of each workflow (of the
\* environment itself at 0), to the by-name and the actor call, to the log call
\* and to the commit call.
MockSources(n) ==
    [fetch : {"environment"},
     runs : [(IF n = 0 THEN {0} ELSE 1..n) -> TwiceRuns],
     byname : TwiceByName, actor : {"ok", "spawnfail"},
     log : {o \in EnvLogs : o.kind # "spawnfail"},
     commit : {o \in EnvCommits : o.kind \in {"nonzero", "ok"}}]

TwiceInit ==
    /\ \E n \in {0, MaxWf} :
          /\ apps = <<NewApp(NewEnvironment(FALSE, 1), NewEnvironment(TRUE, n), 0, FALSE)>>
          /\ srcIn \in MockSources(n)
    /\ TasksInit
    /\ srcOut = [how |-> "none"]

\* The caller keeps what the first calls left and calls both fetchers again.
EnvAgain(b, a) ==
    /\ appPc[b][a] = "envs"
    /\ \A e \in EnvNames : envTask[b][a][e].pc = "done"
    /\ srcOut.how = "none"
    /\ srcOut' = Return(apps[a])
    /\ envTask' = [envTask EXCEPT ![b][a] = [e \in EnvNames |-> EnvAt("start", 0)]]
    /\ UNCHANGED <<apps, orchVars, hung, writer, obs, srcIn, detailVars>>

TwiceNext ==
    \/ \E b \in Batches : BatchLaunch(b)
    \/ \E b \in Batches : BatchGather(b)
    \/ \E b \in Batches, a \in AppIds : AppStart(b, a)
    \/ \E b \in Batches, a \in AppIds, e \in EnvNames : EnvStart(b, a, e)
    \/ \E b \in Batches, a \in AppIds, e \in EnvNames :
          RunReturn(b, a, e, srcIn.runs[envTask[b][a][e].idx])
    \/ \E b \in Batches, a \in AppIds, e \in EnvNames : ByNameReturn(b, a, e, srcIn.byname)
    \/ \E b \in Batches, a \in AppIds, e \in EnvNames : ActorReturn(b, a, e, srcIn.actor)
    \/ \E b \in Batches, a \in AppIds, e \in EnvNames : LogReturn(b, a, e, srcIn.log)
    \/ \E b \in Batches, a \in AppIds, e \in EnvNames : CommitReturn(b, a, e, srcIn.commit)
    \/ \E b \in Batches, a \in AppIds : EnvAgain(b, a)

TwiceSpec == TwiceInit /\ [][TwiceNext]_vars

\* Both fetchers have returned from their second call.
CalledTwice(a) ==
    /\ srcOut.how = "return"
    /\ \A e \in EnvNames : envTask[1][a][e].pc = "done"

\* C21: after the second of two calls in sequence with the same responses every
\* field of each environment and of its workflows has the value it had after
\* the first call.
C21_FetchTwiceSameFields ==
    \A a \in AppIds :
        CalledTwice(a) => (apps[a].dev = srcOut.val.dev /\ apps[a].prod = srcOut.val.prod)

\* Two calls have returned on an environment whose first workflow failed in run
\* 42 and has its log lines and whose second workflow succeeded.
C21_Witness ==
    /\ CalledTwice(1)
    /\ Len(apps[1].prod.workflows) >= 2
    /\ apps[1].prod.workflows[1].status = FAILURE
    /\ apps[1].prod.workflows[1].error_lines = <<"l1">>
    /\ apps[1].prod.workflows[2].status = SUCCESS
    /\ apps[1].prod.last_commit # Null
    /\ apps[1].prod = srcOut.val.prod

(***************************************************************************)
(* Classification of the external run by the workflow-run fetch.           *)
(***************************************************************************)
\* The run whose fields decide the result: the by-name run after a fallback,
\* the run of the first call otherwise.
DecidingRun(in) == IF FellBack(in) THEN in.byname.run ELSE in.run.run

\* The fetch got its deciding run: every call it made delivered.
RunDelivered(in) ==
    /\ in.fetch = "workflow"
    /\ in.target
    /\ in.run.kind = "run"
    /\ FellBack(in) =>
          /\ in.byname.kind = "run"
          /\ NeedsActor(in.byname) => in.actor # "spawnfail"

\* C22: the workflow-run fetch gives SUCCESS for "completed" with conclusion
\* "success", FAILURE for "completed" with any other or missing conclusion,
\* RUNNING for "in_progress", "queued" or "waiting", NONE for any other or
\* missing status, and the by-name lookup classifies as the direct one does.
C22_ClassificationTable ==
    (srcOut.how # "none" /\ RunDelivered(srcIn)) =>
        LET run == DecidingRun(srcIn)
            status == srcOut.val.status
        IN  /\ srcOut.how = "return"
            /\ (run.status = "completed" /\ run.conclusion = "success")
                  <=> status = SUCCESS
            /\ (run.status = "completed" /\ run.conclusion # "success")
                  <=> status = FAILURE
            /\ run.status \in {"in_progress", "queued", "waiting"}
                  <=> status = RUNNING
            /\ run.status \notin {"completed", "in_progress", "queued", "waiting"}
                  <=> status = NONE

\* A by-name lookup has classified a completed run without conclusion.
C22_Witness ==
    /\ srcOut.how = "return"
    /\ RunDelivered(srcIn)
    /\ FellBack(srcIn)
    /\ srcIn.byname.run.status = "completed"
    /\ srcIn.byname.run.conclusion = ""
    /\ srcOut.val.status = FAILURE

(***************************************************************************)
(* The release fetch and its build-run correlation call.                   *)
(***************************************************************************)
\* The build-run correlation call failed: non-zero exit, empty or null output,
\* malformed output, or no matching run (the filter prints null fields).
CorrelationFailed(orun) ==
    \/ orun.kind \in {"nonzero", "empty", "null", "garbage"}
    \/ orun.kind = "run" /\ orun.run = NoRun

\* C23: when the latest-release call succeeds, the release fetch returns that
\* release whatever the build-run correlation call does; after a correlation
\* failure the build status is NONE and the release is not lost.
C23_ReleaseSurvivesCorrelation ==
    (/\ srcOut.how # "none"
     /\ srcIn.fetch = "release"
     /\ srcIn.release.kind = "ok"
     /\ CorrelationFailed(srcIn.relrun)) =>
        /\ srcOut.how = "return"
        /\ srcOut.val.some
        /\ srcOut.val.tag = srcIn.release.tag
        /\ srcOut.val.build_status = NONE

(***************************************************************************)
(* External calls of one workflow-run fetch.                               *)
(***************************************************************************)
\* C24: one workflow-run fetch performs exactly one external call, also when
\* a workflow name is given and the most recent run on the branch belongs to
\* another workflow: no fetch is ever awaiting the run-list call of the by-name
\* lookup or its actor call, which come after the first call.
C24_OneCallPerWorkflowFetch ==
    \A b \in Batches, a \in AppIds, e \in EnvNames :
        envTask[b][a][e].pc \notin {"byname", "actor"}

(***************************************************************************)
(* Error lines across cycles and refresh requests.                         *)
(***************************************************************************)
\* C25: in every reachable state, across cycles and refresh requests, the
\* error lines of a workflow, and of an environment without workflows, are
\* empty unless its status is FAILURE: lines of an earlier FAILURE do not
\* survive a refresh request or a later cycle that is no FAILURE.
C25_ErrorLinesOnlyOnFailure ==
    \A a \in AppIds, e \in EnvNames :
        /\ (~has_workflows(apps[a][e]) /\ apps[a][e].error_lines # <<>>)
              => apps[a][e].status = FAILURE
        /\ \A i \in 1..Len(apps[a][e].workflows) :
              apps[a][e].workflows[i].error_lines # <<>>
                 => apps[a][e].workflows[i].status = FAILURE

(***************************************************************************)
(* The state a refresh request leaves behind: one application whose prod   *)
(* environment has workflows, a cycle, a refresh request, a second cycle.  *)
(***************************************************************************)
ResetInit ==
    /\ \E dev \in Unconfigured, n \in {0, MaxWf} :
          apps = <<NewApp(dev, NewEnvironment(TRUE, n), 0, FALSE)>>
    /\ TasksInit
    /\ SourceIdle

ResetRuns ==
    {Run("completed", "failure", 42, TRUE), Run("completed", "success", 42, TRUE),
     Run("in_progress", "", 42, TRUE)}

ResetProgress ==
    \/ \E b \in Batches : BatchLaunch(b)
    \/ \E b \in Batches : BatchGather(b)
    \/ \E b \in Batches : BatchDone(b)
    \/ \E b \in Batches, a \in AppIds : AppStart(b, a)
    \/ \E b \in Batches, a \in AppIds, e \in EnvNames : EnvStart(b, a, e)
    \/ \E b \in Batches, a \in AppIds, e \in EnvNames, o \in ResetRuns :
          RunReturn(b, a, e, o)
    \/ \E b \in Batches, a \in AppIds, e \in EnvNames, o \in SessionLogs :
          LogReturn(b, a, e, o)
    \/ \E b \in Batches, a \in AppIds, e \in EnvNames, o \in FleetCommits :
          CommitReturn(b, a, e, o)
    \/ \E b \in Batches, a \in AppIds : AppEnvsDone(b, a)

ResetNext == ResetProgress \/ Refresh

ResetSpec == ResetInit /\ [][ResetNext]_vars
AllLoading ==
    \A a \in AppIds :
        /\ apps[a].loading
        /\ \A e \in EnvNames :
              /\ apps[a][e].status = LOADING
              /\ \A i \in 1..Len(apps[a][e].workflows) :
                    apps[a][e].workflows[i].status = LOADING

\* C26: immediately after a refresh request, before any fetcher of the new
\* batch has run, every app is loading and every environment and every
\* workflow of every app has status LOADING.
C26_RefreshResetsAll == [][Refresh => AllLoading']_vars

\* A refresh request has just reset an application whose first cycle had ended
\* with a failed workflow and a commit, and no fetcher of the new batch has run.
C26_Witness ==
    /\ refreshTask = 2
    /\ batchPc[2] = "created"
    /\ \A a \in AppIds : appPc[2][a] = "none"
    /\ AllLoading
    /\ \E a \in AppIds, e \in EnvNames :
          /\ apps[a][e].last_commit # Null
          /\ Len(apps[a][e].workflows) > 0
          /\ apps[a][e].workflows[1].run_id = 42

(***************************************************************************)
(* The comparison sequence: one application with a repository and every    *)
(* configured branch pair, two cycles, branch-diff calls that succeed,     *)
(* fail, or break off at a commit.                                         *)
(***************************************************************************)
CompareInit ==
    /\ apps = <<NewApp(NewEnvironment(TRUE, 0), NewEnvironment(FALSE, 0),
                       Len(CompareConfigs), FALSE)>>
    /\ TasksInit
    /\ SourceIdle

CompareDiffs ==
    {[kind |-> k, data |-> NoDiff] : k \in {"nonzero", "garbage"}}
    \cup {[kind |-> "ok", data |-> [ahead_by |-> 3, behind_by |-> 1, commits |-> cs]] :
            cs \in {<<>>, <<[sha |-> "abc1234", message |-> "fix", date |-> "ok"],
                          [sha |-> "abc1234", message |-> "", date |-> "ok"]>>}}

CompareProgress ==
    \/ \E b \in Batches : BatchLaunch(b)
    \/ \E b \in Batches : BatchGather(b)
    \/ \E b \in Batches : BatchDone(b)
    \/ \E b \in Batches, a \in AppIds : AppStart(b, a)
    \/ \E b \in Batches, a \in AppIds, e \in EnvNames : EnvStart(b, a, e)
    \/ \E b \in Batches, a \in AppIds, e \in EnvNames, o \in SessionRuns :
          RunReturn(b, a, e, o)
    \/ \E b \in Batches, a \in AppIds, e \in EnvNames, o \in SessionLogs :
          LogReturn(b, a, e, o)
    \/ \E b \in Batches, a \in AppIds, e \in EnvNames, o \in SessionCommits :
          CommitReturn(b, a, e, o)
    \/ \E b \in Batches, a \in AppIds : AppEnvsDone(b, a)
    \/ \E b \in Batches, a \in AppIds, i \in 1..Len(CompareConfigs), o \in CompareDiffs :
          CmpReturn(b, a, i, o)
    \/ \E b \in Batches, a \in AppIds : AppCmpDone(b, a)

CompareNext == CompareProgress \/ Refresh

CompareSpec == CompareInit /\ [][CompareNext]_vars

\* The sequence has one comparison per configured pair, in the order of the
\* pairs, each with the base and head of its pair.
OnePerConfig(app) ==
    /\ Len(app.comparisons) = app.compare_configs
    /\ \A i \in 1..app.compare_configs :
          /\ app.comparisons[i].base = CompareConfigs[i].base
          /\ app.comparisons[i].head = CompareConfigs[i].head

\* The step writes the comparisons of app a: all of them, each the result of
\* the same fetcher's branch-diff fetch for its pair.
WritesAll(a) ==
    \E b \in Batches :
        /\ appPc[b][a] = "cmp"
        /\ DOMAIN cmpTask[b][a] = 1..apps[a].compare_configs
        /\ \A i \in DOMAIN cmpTask[b][a] :
              /\ cmpTask[b][a][i].done
              /\ apps'[a].comparisons[i] = cmpTask[b][a][i].val

\* C27: whenever an app fetcher writes the comparisons of its app it replaces
\* the whole sequence in one step by one comparison per configured pair, in the
\* order of the pairs and with their base and head, also when some branch-diff
\* fetches fail; the sequence is never a partly updated mixture.
C27_ComparisonsReplacedWhole ==
    /\ [](\A a \in AppIds : apps[a].comparisons = <<>> \/ OnePerConfig(apps[a]))
    /\ [][\A a \in AppIds :
            apps'[a].comparisons # apps[a].comparisons
               => OnePerConfig(apps'[a]) /\ WritesAll(a)]_vars

\* The fetcher of the second batch has written the comparisons: the first
\* branch-diff call failed, the second broke off at its second commit.
C27_Witness ==
    /\ refreshTask = 2
    /\ writer = 2
    /\ appPc[2][1] = "done"
    /\ OnePerConfig(apps[1])
    /\ Len(apps[1].comparisons) = 2
    /\ apps[1].comparisons[1].ahead_by = 0
    /\ apps[1].comparisons[2].ahead_by = 3
    /\ Len(apps[1].comparisons[2].commits) = 1

(***************************************************************************)
(* The health probe.                                                       *)
(***************************************************************************)
\* The diagnostic the probe of the same environment leaves after outcome k.
DiagnosticOf(in, k) ==
    fetch_health_check(in.env, [kind |-> k, code |-> 0, text |-> <<>>]).val.health_error

\* C28: a health probe sets ok to true exactly when a response with a status
\* code from 200 to 399 is received and to false for every other response; on
\* a timeout, a connection failure or any other error it sets ok to false with
\* a diagnostic of at most 50 characters that tells a timeout from a connection
\* failure; it never raises to its caller.
C28_HealthProbe ==
    (srcOut.how # "none" /\ srcIn.fetch = "health" /\ srcIn.env.url) =>
        LET o == srcIn.health
            env == srcOut.val
            healthy == o.kind = "response" /\ 200 <= o.code /\ o.code <= 399
        IN  /\ srcOut.how = "return"
            /\ healthy => env.health_ok = "ok"
            /\ ~healthy => env.health_ok = "fail"
            /\ o.kind # "response" => Len(env.health_error) <= 50
            /\ o.kind = "timeout" =>
                  /\ env.health_error # <<>>
                  /\ env.health_error # DiagnosticOf(srcIn, "connect")
            /\ o.kind = "connect" =>
                  /\ env.health_error # <<>>
                  /\ env.health_error # DiagnosticOf(srcIn, "timeout")

\* A probe of an environment that an earlier probe had found healthy has met
\* an error whose text has 51 characters.
C28_Witness ==
    /\ srcOut.how = "return"
    /\ srcIn.fetch = "health"
    /\ srcIn.env.url
    /\ srcIn.env.health_ok = "ok"
    /\ srcIn.health.kind = "error"
    /\ Len(srcIn.health.text) = 51
    /\ srcOut.val.health_ok = "fail"
    /\ Len(srcOut.val.health_error) = 50

(***************************************************************************)
(* Launches of a batch.                                                    *)
(***************************************************************************)
\* The app fetchers of batch b that the step launches.
Launched(b) == {a \in AppIds : appPc[b][a] = "none" /\ appPc'[b][a] # "none"}

\* C29: in a batch the app fetchers are launched in inventory order, one per
\* pacing delay; the next launch waits for the delay only, never for the fetch
\* of the previous app, so that every app is launched even while the fetch of
\* an earlier one is still waiting, and several fetchers are in flight at once.
C29_StaggeredLaunch ==
    /\ [](\A b \in Batches, a \in AppIds :
            (a > 1 /\ appPc[b][a] # "none") => appPc[b][a - 1] # "none")
    /\ [][\A b \in Batches :
            /\ Cardinality(Launched(b)) <= 1
            /\ Launched(b) # {} => batchPc'[b] = "sleep"]_vars
    /\ \A a \in 1..NApps : <>(appPc[1][a] # "none")

\* The fetcher of the last app is in flight while the fetcher of the first one
\* waits for a call that never responds.
C29_Witness ==
    /\ Stuck(1)
    /\ appPc[1][1] = "envs"
    /\ appPc[1][NApps] = "envs"
    /\ \E e \in EnvNames : envTask[1][NApps][e].pc \notin {"none", "start", "done"}

(***************************************************************************)
(* One app fetcher call for an application whose two environments have a   *)
(* repository, that compares branches and tracks releases.                 *)
(***************************************************************************)
PairInit ==
    /\ \E n \in {0, 1} :
          apps = <<NewApp(NewEnvironment(TRUE, 0), NewEnvironment(TRUE, n),
                          Len(CompareConfigs), TRUE)>>
    /\ TasksInit
    /\ SourceIdle

PairRuns ==
    {Failed("nonzero"), Run("completed", "success", 42, TRUE),
     Run("completed", "failure", 42, TRUE)}
PairDiffs ==
    {[kind |-> "nonzero", data |-> NoDiff],
     [kind |-> "ok", data |-> [ahead_by |-> 3, behind_by |-> 1, commits |-> <<>>]]}
PairReleases == {o \in ReleaseOutcomes : o.kind \in {"nonzero", "ok"}}
PairReleaseRuns == {Failed("nonzero"), Run("completed", "success", 42, TRUE)}

PairNext ==
    \/ \E b \in Batches : BatchLaunch(b)
    \/ \E b \in Batches : BatchGather(b)
    \/ \E b \in Batches : BatchDone(b)
    \/ \E b \in Batches, a \in AppIds : AppStart(b, a)
    \/ \E b \in Batches, a \in AppIds, e \in EnvNames : EnvStart(b, a, e)
    \/ \E b \in Batches, a \in AppIds, e \in EnvNames, o \in PairRuns :
          RunReturn(b, a, e, o)
    \/ \E b \in Batches, a \in AppIds, e \in EnvNames, o \in SessionLogs :
          LogReturn(b, a, e, o)
    \/ \E b \in Batches, a \in AppIds, e \in EnvNames, o \in FleetCommits :
          CommitReturn(b, a, e, o)
    \/ \E b \in Batches, a \in AppIds : AppEnvsDone(b, a)
    \/ \E b \in Batches, a \in AppIds, i \in 1..Len(CompareConfigs), o \in PairDiffs :
          CmpReturn(b, a, i, o)
    \/ \E b \in Batches, a \in AppIds : AppCmpDone(b, a)
    \/ \E b \in Batches, a \in AppIds, o \in PairReleases : RelReturn(b, a, o)
    \/ \E b \in Batches, a \in AppIds, o \in PairReleaseRuns : RelRunReturn(b, a, o)

PairSpec == PairInit /\ [][PairNext]_vars

\* An environment fetcher that has been started and has not returned.
EnvInFlight(b, a, e) == envTask[b][a][e].pc \notin {"none", "done"}

\* C30: within one app fetcher call the environment fetchers of dev and prod
\* are started together and are in flight at the same time; no branch-diff
\* fetch starts before both have completed; loading becomes false only when
\* the branch-diff fetches and the release fetch of the call are over.
C30_AppFetcherOrder ==
    /\ [][\A b \in Batches, a \in AppIds :
            (appPc[b][a] = "start" /\ appPc'[b][a] # "start")
            => \A e \in EnvNames : EnvInFlight(b, a, e)']_vars
    /\ [](\A b \in Batches, a \in AppIds :
            (appPc[b][a] \in {"cmp", "rel", "relrun"} \/ cmpTask[b][a] # <<>>)
            => \A e \in EnvNames : envTask[b][a][e].pc = "done")
    /\ [][\A a \in AppIds :
            (apps[a].loading /\ ~apps'[a].loading)
            => \E b \in Batches :
                  /\ appPc[b][a] \in LastStep(apps[a])
                  /\ appPc'[b][a] = "done"
                  /\ cmpTask'[b][a] = <<>> /\ relTask'[b][a] = NoRelease
                  /\ Len(apps'[a].comparisons) = apps[a].compare_configs]_vars

\* dev still waits for its run call while prod, started with it, has its run
\* and waits for its commit call.
C30_Witness ==
    /\ appPc[1][1] = "envs"
    /\ envTask[1][1]["dev"].pc = "run"
    /\ envTask[1][1]["prod"].pc = "commit"
    /\ apps[1].prod.status = SUCCESS
    /\ apps[1].loading

(***************************************************************************)
(* What an environment fetcher writes.                                     *)
(***************************************************************************)
\* The environment's own result fields.
Own(env) == <<env.status, env.run_id, env.error_lines>>

\* In the step the fetchers leave alone the own fields of the environments of
\* `scope` that have workflows.
OwnUntouched(scope) ==
    \A a \in AppIds, e \in EnvNames :
        (has_workflows(apps[a][e]) /\ apps[a][e] \in scope)
            => Own(apps'[a][e]) = Own(apps[a][e])

\* An environment without workflows gets one workflow-run fetch, for itself and
\* by the first call alone, and only its own fields are written.
OneOwnFetch ==
    \A b \in Batches, a \in AppIds, e \in EnvNames :
        ~has_workflows(apps[a][e]) =>
            /\ (envTask[b][a][e].pc # "run" /\ envTask'[b][a][e].pc = "run")
                  => (envTask[b][a][e].pc = "start" /\ envTask'[b][a][e].idx = 0)
            /\ envTask'[b][a][e].pc \notin {"byname", "actor"}
            /\ apps'[a][e].workflows = <<>>

AnyEnvironment == {apps[a][e] : a \in AppIds, e \in EnvNames}
WithRepo == {env \in AnyEnvironment : env.repo}

\* C31 as stated: the fetcher of an environment with workflows never writes
\* the environment's own status, run id or error lines; an environment without
\* workflows gets exactly one workflow-run fetch and only its own fields are
\* written.
C31_OwnOrWorkflowFields ==
    [][OwnUntouched(AnyEnvironment) /\ OneOwnFetch]_vars

\* C31 amended: the same for the environments that have a repository; the
\* fetcher of an environment without repository sets its own status to NONE
\* whether or not it declares workflows.
C31_OwnOrWorkflowFieldsWithRepo ==
    [][OwnUntouched(WithRepo) /\ OneOwnFetch]_vars

\* The fetcher of an environment with a repository and workflows has returned:
\* the workflows have their results and a commit is attached, the own fields
\* are as constructed.
C31_Witness ==
    /\ envTask[1][1]["prod"].pc = "done"
    /\ apps[1].prod.repo
    /\ Len(apps[1].prod.workflows) >= 2
    /\ apps[1].prod.workflows[1].status = FAILURE
    /\ apps[1].prod.workflows[1].error_lines # <<>>
    /\ apps[1].prod.workflows[2].status = SUCCESS
    /\ apps[1].prod.last_commit # Null
    /\ Own(apps[1].prod) = <<LOADING, 0, <<>>>>

(***************************************************************************)
(* The latest-commit fetch of an environment fetcher.                      *)
(***************************************************************************)
\* C32: every environment fetcher call on an environment with a repository
\* performs exactly one latest-commit fetch, after its workflow fetches
\* whatever they gave, and returns by setting the latest commit to the result
\* of that fetch: the commit it delivered, or null when it failed, also over a
\* commit of an earlier cycle.
C32_OneCommitFetch ==
    [][\A b \in Batches, a \in AppIds, e \in EnvNames :
          LET t == envTask[b][a][e]
              u == envTask'[b][a][e]
              o == obs'[a][e][0].commit
          IN  apps[a][e].repo =>
                /\ (t.pc # "commit" /\ u.pc = "commit")
                      => t.pc \in {"run", "byname", "actor", "log"}
                /\ (t.pc = "commit" /\ u.pc # "commit") => u.pc \in {"done", "cancelled"}
                /\ (t.pc # "done" /\ u.pc = "done") =>
                      /\ t.pc = "commit"
                      /\ o.kind # "none"
                      /\ o.kind # "ok" => apps'[a][e].last_commit = Null
                      /\ o.kind = "ok" =>
                            /\ apps'[a][e].last_commit.some
                            /\ apps'[a][e].last_commit.commit.sha = o.commit.sha]_vars

\* The fetcher of the second cycle has returned after a commit fetch that
\* failed: the commit of the first cycle is gone, the run of the first workflow
\* is still there.
C32_Witness ==
    /\ refreshTask = 2
    /\ writer = 2
    /\ envTask[1][1]["prod"].pc = "done"
    /\ envTask[2][1]["prod"].pc = "done"
    /\ obs[1]["prod"][0].commit.kind = "nonzero"
    /\ apps[1].prod.last_commit = Null
    /\ Len(apps[1].prod.workflows) >= 1
    /\ apps[1].prod.workflows[1].run_id = 42

(***************************************************************************)
(* RUNNING and LOADING in the workflow rollup.                             *)
(***************************************************************************)
\* C33: the rollup of a non-empty workflow sequence is RUNNING if and only if
\* no workflow is FAILURE and some workflow is RUNNING, and LOADING if and
\* only if no workflow is FAILURE or RUNNING and some workflow is LOADING; the
\* card of a published environment with workflows shows the same.
C33_RunningAndLoading ==
    \A a \in AppIds, e \in EnvNames :
        LET W == Statuses(apps[a][e])
        IN  has_workflows(apps[a][e]) =>
              /\ RollupWorkflows(W) = RUNNING
                    <=> (~Has(FAILURE, W) /\ Has(RUNNING, W))
              /\ RollupWorkflows(W) = LOADING
                    <=> (~Has(FAILURE, W) /\ ~Has(RUNNING, W) /\ Has(LOADING, W))
              /\ Published(a) =>
                    /\ card[a][e] = RUNNING <=> (~Has(FAILURE, W) /\ Has(RUNNING, W))
                    /\ card[a][e] = LOADING
                          <=> (~Has(FAILURE, W) /\ ~Has(RUNNING, W) /\ Has(LOADING, W))

\* A published environment with a RUNNING workflow beside a LOADING one.
C33_Witness ==
    /\ Published(1)
    /\ Has(RUNNING, Statuses(apps[1].prod)) /\ Has(LOADING, Statuses(apps[1].prod))
    /\ ~Has(FAILURE, Statuses(apps[1].prod))
    /\ card[1].prod = RUNNING

(***************************************************************************)
(* What a completed cycle leaves to show.                                  *)
(***************************************************************************)
\* C34: in every reachable state an app with loading=false has no environment
\* whose effective status is LOADING, an environment without repository that
\* declares workflows included.
C34_NoLoadingWhenLoaded ==
    \A a \in AppIds :
        ~apps[a].loading =>
            \A e \in EnvNames : overall_status(apps[a][e]) # LOADING

(***************************************************************************)
(* A cancelled batch.                                                      *)
(***************************************************************************)
\* C35: once a batch has been cancelled by a refresh request it launches no
\* further app fetcher: the apps it had not launched are launched by the new
\* batch only.
C35_CancelledBatchLaunchesNothing ==
    [][\A b \in Batches, a \in AppIds :
          (batchPc[b] = "cancelled" /\ appPc[b][a] = "none")
              => (appPc'[b][a] = "none" /\ batchNext'[b] = batchNext[b])]_vars

\* The first batch was cancelled after its first launch; the last app of the
\* inventory, which it never launched, is being fetched by the second batch.
C35_Witness ==
    /\ refreshTask = 2
    /\ batchPc[1] = "cancelled"
    /\ batchNext[1] = 2
    /\ appPc[1][NApps] = "none"
    /\ appPc[2][NApps] \in InFlight

(***************************************************************************)
(* A session that keeps refreshing: one application, refresh requests in   *)
(* any phase of a batch.                                                   *)
(***************************************************************************)
StormInit ==
    /\ apps = <<NewApp(NewEnvironment(TRUE, 0), NewEnvironment(FALSE, 0), 0, FALSE)>>
    /\ TasksInit
    /\ SourceIdle

StormNext ==
    \/ \E b \in Batches : BatchLaunch(b)
    \/ \E b \in Batches : BatchGather(b)
    \/ \E b \in Batches : BatchDone(b)
    \/ \E b \in Batches, a \in AppIds : AppStart(b, a)
    \/ \E b \in Batches, a \in AppIds, e \in EnvNames : EnvStart(b, a, e)
    \/ \E b \in Batches, a \in AppIds, e \in EnvNames, o \in SessionRuns :
          RunReturn(b, a, e, o)
    \/ \E b \in Batches, a \in AppIds, e \in EnvNames, o \in SessionLogs :
          LogReturn(b, a, e, o)
    \/ \E b \in Batches, a \in AppIds, e \in EnvNames, o \in SessionCommits :
          CommitReturn(b, a, e, o)
    \/ \E b \in Batches, a \in AppIds : AppEnvsDone(b, a)
    \/ action_refresh(MaxStorm)

StormSpec == StormInit /\ [][StormNext]_vars

\* The fetcher of app a in batch b was cancelled, and so was every fetcher of
\* the app in a later batch but the newest.
LastCancelled(b, a) ==
    /\ b < refreshTask
    /\ \A c \in b..(refreshTask - 1) : appPc[c][a] = "cancelled"

\* C36: an app fetcher that is cancelled while in flight takes no further
\* step, so it never sets loading to false and never publishes its app; the
\* app stays loading=true, and its card too, until the fetcher of the new
\* batch completes.
C36_CancelledNeverPublishes ==
    /\ [][\A b \in Batches, a \in AppIds :
            appPc[b][a] = "cancelled" => appPc'[b][a] = "cancelled"]_vars
    /\ [](\A b \in Batches, a \in AppIds :
            (LastCancelled(b, a) /\ appPc[refreshTask][a] # "done")
                => (apps[a].loading /\ card[a].loading))

(***************************************************************************)
(* Health fields over several probes.                                      *)
(***************************************************************************)
\* DetailView._update_health_display: what the health widget of an environment
\* with a url shows.
update_health_display(env) ==
    IF env.health_ok = "none" THEN <<"checking">>
    ELSE IF env.health_ok = "ok" THEN <<"ok", env.health_code, env.health_latency_ms>>
    ELSE IF env.health_error # <<>> THEN <<"error", env.health_error>>
    ELSE <<"http", env.health_code>>

\* C37: after any sequence of health probes of an environment its health
\* fields describe the most recent probe only: a probe that got a response
\* leaves no diagnostic of an earlier failed probe, a failed probe leaves no
\* status code or latency of an earlier response, and what is displayed is the
\* outcome of the last probe.
C37_HealthOfLastProbe ==
    (srcOut.how = "return" /\ srcIn.fetch = "health" /\ srcIn.env.url) =>
        LET o == srcIn.health
            env == srcOut.val
        IN  /\ o.kind = "response" => env.health_error = <<>>
            /\ o.kind # "response" =>
                  (env.health_code = 0 /\ env.health_latency_ms = "none")
            /\ (o.kind = "response" /\ env.health_ok = "fail")
                  => update_health_display(env) = <<"http", o.code>>

(***************************************************************************)
(* The run a named workflow gets its status from.                          *)
(***************************************************************************)
\* C38: the status given to a named workflow is classified from a run of that
\* workflow: when the most recent run on the branch belongs to another
\* workflow its status and id are never used, and the result is that of the
\* lookup filtered by the workflow name, NONE when that lookup gives no run.
C38_StatusOfSameWorkflow ==
    (srcOut.how # "none" /\ srcIn.fetch = "workflow" /\ srcIn.target
        /\ FellBack(srcIn)) =>
        LET ob == srcIn.byname
            found == ob.kind = "run" /\ (NeedsActor(ob) => srcIn.actor # "spawnfail")
        IN  /\ srcOut.how = "return"
            /\ found =>
                  /\ srcOut.val.status = ExpectedStatus(ob.run.status, ob.run.conclusion)
                  /\ srcOut.val.run_id = ob.run.id
            /\ ~found => srcOut.val = NoneResult

\* The most recent run, a success of another workflow with id 42, was passed
\* over: the named workflow is FAILURE after its own run without id.
C38_Witness ==
    /\ srcOut.how = "return"
    /\ srcIn.fetch = "workflow"
    /\ FellBack(srcIn)
    /\ srcIn.run.run.status = "completed" /\ srcIn.run.run.conclusion = "success"
    /\ srcIn.run.run.id = 42
    /\ srcIn.byname.kind = "run"
    /\ srcIn.byname.run.conclusion = "failure"
    /\ srcOut.val = [status |-> FAILURE, run_id |-> 0]

(***************************************************************************)
(* What an app fetcher call writes.                                        *)
(***************************************************************************)
\* A fetcher of app a takes the step.
FetcherStep(a) ==
    \E b \in Batches :
        \/ appPc'[b][a] # appPc[b][a]
        \/ envTask'[b][a] # envTask[b][a]
        \/ cmpTask'[b][a] # cmpTask[b][a]

\* C39: an app fetcher call writes only to its own app, its two environments
\* and their workflows: a step that is no refresh request changes the app, and
\* the card, of the one fetcher that takes it and leaves every field of every
\* other app as it is.
C39_WritesOwnAppOnly ==
    [][refreshTask' = refreshTask =>
          \A a \in AppIds :
              (apps'[a] # apps[a] \/ card'[a] # card[a])
                  => /\ FetcherStep(a)
                     /\ \A c \in AppIds \ {a} :
                           apps'[c] = apps[c] /\ card'[c] = card[c]]_vars

\* The fetch of the second app is over and published while the first app,
\* whose fetcher is in flight, is as the inventory declares it.
C39_Witness ==
    /\ refreshTask = 1
    /\ appPc[1][2] = "done"
    /\ ~apps[2].loading
    /\ apps[2].dev.status = NONE
    /\ appPc[1][1] \in InFlight
    /\ apps[1] = get_apps[1]
====
